---------------------------- MODULE Spec2Model ----------------------------
(***************************************************************************)
(* A model of jobcalc: the Percentage and Currency value types             *)
(* (jobcalc/types.py), the calculate formula and the BaseCalculator        *)
(* composition tree (jobcalc/core.py).                                     *)
(*                                                                         *)
(* Numbers.  decimal.Decimal values are modelled as exact rationals        *)
(* <<n, d>> in lowest terms with d > 0.  The decimal context precision     *)
(* (28 significant digits) is far beyond the operands of the model, so     *)
(* +, -, * and the division by 100 are exact in the program as well; a     *)
(* quotient that does not terminate is kept exact here, where the program  *)
(* rounds it in the 28th digit.                                            *)
(*                                                                         *)
(* Text.  A Python str is a sequence of one-character strings, so that     *)
(* parsing and formatting are computed character by character.             *)
(***************************************************************************)
EXTENDS Integers, Sequences, FiniteSets, TLC

VARIABLES
    calcs,   \* the calculator objects of the session, by id
    op,      \* the call whose outcome is held, "none" between calls
    args,    \* the arguments it was invoked with
    ret,     \* its outcome: a returned value or a raised exception
    updates  \* the number of update calls of the session so far

vars == <<calcs, op, args, ret, updates>>

---------------------------------------------------------------------------
(* Bounds of the model. *)

\* longest input text, in characters
MaxStrLen == 3
\* largest mantissa of a numeric input m * 10^e
MaxMant == 12
\* largest |e| of a numeric input m * 10^e
MaxExp == 3
\* most calculator objects of a session
MaxCalcs == 2

---------------------------------------------------------------------------
(* Exact rational arithmetic: the values of decimal.Decimal. *)

Abs(n) == IF n < 0 THEN -n ELSE n

RECURSIVE Gcd(_, _)
Gcd(a, b) == IF b = 0 THEN a ELSE Gcd(b, a % b)

RECURSIVE Pow10(_)
Pow10(k) == IF k = 0 THEN 1 ELSE 10 * Pow10(k - 1)

\* <<n, d>> in lowest terms, d > 0
Norm(n, d) ==
    LET s == IF d < 0 THEN -1 ELSE 1
        g == Gcd(Abs(n), Abs(d))
    IN  <<(s * n) \div g, (s * d) \div g>>

RInt(n) == <<n, 1>>
RZero == RInt(0)
ROne == RInt(1)
RHundred == RInt(100)

\* a + b over the least common denominator
RAddOver(a, b, g) ==
    Norm(a[1] * (b[2] \div g) + b[1] * (a[2] \div g), a[2] * (b[2] \div g))

RAdd(a, b) == RAddOver(a, b, Gcd(a[2], b[2]))
RNeg(a) == <<-a[1], a[2]>>
RSub(a, b) == RAdd(a, RNeg(b))
\* a * b with the common factors g of a[1], b[2] and k of b[1], a[2]
\* cancelled first
RMulOver(a, b, g, k) ==
    Norm((a[1] \div g) * (b[1] \div k), (a[2] \div k) * (b[2] \div g))

RMul(a, b) ==
    IF a[1] = 0 \/ b[1] = 0 THEN <<0, 1>>
    ELSE RMulOver(a, b, Gcd(Abs(a[1]), b[2]), Gcd(Abs(b[1]), a[2]))
\* b # 0
RDiv(a, b) == RMul(a, Norm(b[2], b[1]))
RLt(a, b) == a[1] * b[2] < b[1] * a[2]
RLe(a, b) == a[1] * b[2] <= b[1] * a[2]
RAbs(a) == <<Abs(a[1]), a[2]>>
\* the integer part of a >= 0
RFloor(a) == a[1] \div a[2]

---------------------------------------------------------------------------
(* Python values and outcomes. *)

Str(s) == [t |-> "str", s |-> s]
\* a decimal.Decimal (or int) object
Dec(r) == [t |-> "dec", v |-> r]
\* object(): a value with no numeric reading
Obj == [t |-> "obj"]
None == [t |-> "None"]
\* a list of values
List(items) == [t |-> "list", items |-> items]
\* a tuple of values
Tuple(items) == [t |-> "tuple", items |-> items]
\* True or False
Bool(b) == [t |-> "bool", b |-> b]
\* a dict with text keys: d maps each key to its value
Dict(d) == [t |-> "dict", d |-> d]
\* a reference to the calculator object calcs[id]
CalcRef(id) == [t |-> "calc", id |-> id]

Return(v) == [exc |-> "none", val |-> v]
Raise(e) == [exc |-> e]
Ok(r) == r.exc = "none"

InvalidOperation == "decimal.InvalidOperation"
PercentageOutOfRange == "PercentageOutOfRange"
RecursionError == "RecursionError"

DigitVal ==
    [c \in {"0", "1", "2", "3", "4", "5", "6", "7", "8", "9"} |->
        CASE c = "0" -> 0 [] c = "1" -> 1 [] c = "2" -> 2 [] c = "3" -> 3
          [] c = "4" -> 4 [] c = "5" -> 5 [] c = "6" -> 6 [] c = "7" -> 7
          [] c = "8" -> 8 [] c = "9" -> 9]

DigitChar == <<"0", "1", "2", "3", "4", "5", "6", "7", "8", "9">>

IsDigit(c) == c \in DOMAIN DigitVal

RECURSIVE NatOf(_)
NatOf(ds) ==
    IF ds = <<>> THEN 0
    ELSE NatOf(SubSeq(ds, 1, Len(ds) - 1)) * 10 + DigitVal[ds[Len(ds)]]

RECURSIVE NatChars(_)
NatChars(n) ==
    IF n < 10 THEN <<DigitChar[n + 1]>>
    ELSE Append(NatChars(n \div 10), DigitChar[(n % 10) + 1])

\* str(value)
PyStr(value) ==
    CASE value.t = "str" -> value.s
      [] value.t = "obj" -> <<"<", "o", "b", "j", "e", "c", "t", ">">>
      [] value.t = "None" -> <<"N", "o", "n", "e">>
      [] value.t = "calc" -> <<"<", "c", "a", "l", "c", ">">>
      [] value.t = "bool" -> IF value.b THEN <<"T", "r", "u", "e">>
                             ELSE <<"F", "a", "l", "s", "e">>
      [] OTHER -> <<"<", value.t, ">">>

\* decimal.Decimal(text): an optional sign, then digits with at most one
\* decimal point and at least one digit.
DecimalOfText(s) ==
    LET signed == s # <<>> /\ s[1] \in {"-", "+"}
        body == IF signed THEN Tail(s) ELSE s
        dots == {i \in DOMAIN body : body[i] = "."}
        digs == SelectSeq(body, IsDigit)
        wellformed ==
            /\ \A i \in DOMAIN body : IsDigit(body[i]) \/ body[i] = "."
            /\ Cardinality(dots) <= 1
            /\ digs # <<>>
        scale == IF dots = {} THEN 0
                 ELSE Len(body) - (CHOOSE i \in dots : TRUE)
        mag == NatOf(digs)
    IN  IF wellformed
        THEN Return(Norm(IF signed /\ s[1] = "-" THEN -mag ELSE mag, Pow10(scale)))
        ELSE Raise(InvalidOperation)

\* decimal.Decimal(str(value)); the text of a Decimal reads back as itself
DecimalOf(value) ==
    IF value.t = "dec" THEN Return(value.v) ELSE DecimalOfText(PyStr(value))

\* ''.join(str(value).split(symbol)) for a one-character symbol
Strip(s, symbol) == SelectSeq(s, LAMBDA c : c # symbol)

---------------------------------------------------------------------------
(* jobcalc/types.py: Percentage and Currency. *)

\* the Decimal of value, or of its text without the symbol when the text as
\* it is does not read (the except branches of both __new__)
DecimalOrStripped(first, value, symbol) ==
    IF Ok(first) THEN first ELSE DecimalOfText(Strip(PyStr(value), symbol))

\* the range check of Percentage.__new__ with the upper limit included
PercentageOfDecimalUpTo100(parsed) ==
    IF ~Ok(parsed) THEN Raise(InvalidOperation)
    ELSE IF RLe(RZero, parsed.val) /\ RLt(parsed.val, ROne)
         THEN Return(parsed.val)
    ELSE IF RLe(ROne, parsed.val) /\ RLe(parsed.val, RHundred)
         THEN Return(RDiv(parsed.val, RHundred))
    ELSE Raise(PercentageOutOfRange)

\* the range check of Percentage.__new__ with the division by 100 left out
PercentageOfDecimalUnscaled(parsed) ==
    IF ~Ok(parsed) THEN Raise(InvalidOperation)
    ELSE IF RLe(RZero, parsed.val) /\ RLt(parsed.val, RHundred)
         THEN Return(parsed.val)
    ELSE Raise(PercentageOutOfRange)

\* the range check of Percentage.__new__ on the parsed value
PercentageOfDecimal(parsed) ==
    IF ~Ok(parsed) THEN Raise(InvalidOperation)
    ELSE IF RLe(RZero, parsed.val) /\ RLt(parsed.val, ROne)
         THEN Return(parsed.val)
    ELSE IF RLe(ROne, parsed.val) /\ RLt(parsed.val, RHundred)
         THEN Return(RDiv(parsed.val, RHundred))
    ELSE Raise(PercentageOutOfRange)

\* Percentage.__new__(cls, value); the object returned is its value in [0, 1)
PercentageNew(value) ==
    PercentageOfDecimal(DecimalOrStripped(DecimalOf(value), value, "%"))

\* (self * 100).quantize(Decimal('.1'), rounding=ROUND_DOWN), in tenths of a
\* percent
PercentTenths(p) == RFloor(RMul(p, RInt(1000)))

\* Percentage.formatted_string(self): '{:.1f}%'
PercentageFormattedString(p) ==
    LET tenths == PercentTenths(p)
    IN  NatChars(tenths \div 10) \o <<".", DigitChar[(tenths % 10) + 1], "%">>

\* babel.numbers.get_currency_symbol(CURRENCY_FORMAT, locale=LOCALE)
CurrencySymbol == "$"

\* the sign normalization of Currency.__new__ left out
CurrencyOfDecimalSigned(parsed) ==
    IF ~Ok(parsed) THEN Raise(InvalidOperation) ELSE Return(parsed.val)

\* the sign normalization of Currency.__new__ on the parsed value
CurrencyOfDecimal(parsed) ==
    IF ~Ok(parsed) THEN Raise(InvalidOperation)
    ELSE IF RLt(parsed.val, RZero) THEN Return(RMul(parsed.val, RInt(-1)))
    ELSE Return(parsed.val)

\* Currency.__new__(cls, value); the object returned is its value >= 0
CurrencyNew(value) ==
    CurrencyOfDecimal(
        DecimalOrStripped(DecimalOf(value), value, CurrencySymbol))

\* the amount in cents, rounded half-even to the two decimals of the pattern
CurrencyCents(c) ==
    LET x == RMul(c, RHundred)
        q == x[1] \div x[2]
        r == x[1] % x[2]
    IN  IF 2 * r < x[2] THEN q
        ELSE IF 2 * r > x[2] THEN q + 1
        ELSE IF q % 2 = 0 THEN q ELSE q + 1

\* the digits of the integer part in groups of three, separated by ','
RECURSIVE Grouped(_)
Grouped(ds) ==
    IF Len(ds) <= 3 THEN ds
    ELSE Grouped(SubSeq(ds, 1, Len(ds) - 3)) \o <<",">>
         \o SubSeq(ds, Len(ds) - 2, Len(ds))

\* Currency.formatted_string(self): babel's format_currency under USD and
\* en_US, the symbol, the grouped integer part and two decimals
CurrencyFormattedString(c) ==
    LET cents == CurrencyCents(c)
    IN  <<CurrencySymbol>> \o Grouped(NatChars(cents \div 100))
        \o <<".", DigitChar[((cents % 100) \div 10) + 1],
             DigitChar[(cents % 10) + 1]>>

---------------------------------------------------------------------------
(* jobcalc/core.py: calculate. *)

\* the default '0' of every parameter of calculate
DefaultArg == Str(<<"0">>)

\* Decimal division x / y under the default context traps
DecimalDivide(x, y) ==
    IF y # RZero THEN Return(RDiv(x, y))
    ELSE IF x = RZero THEN Raise(InvalidOperation)
    ELSE Raise("decimal.DivisionByZero")

\* the rest of calculate with the result not wrapped in Currency
calculateRestUnwrapped(q, d, x) ==
    IF ~Ok(q) THEN q
    ELSE IF ~Ok(d) THEN d
    ELSE IF ~Ok(x) THEN x
    ELSE Return(RSub(RMul(q.val, RSub(ROne, d.val)), x.val))

\* the rest of calculate with the deduction converted before the multiplier
calculateRestDeductionFirst(q, d, x) ==
    IF ~Ok(q) THEN q
    ELSE IF ~Ok(x) THEN x
    ELSE IF ~Ok(d) THEN d
    ELSE CurrencyNew(Dec(RSub(RMul(q.val, RSub(ROne, d.val)), x.val)))

\* calculate from the quotient q on: Currency(q * (1 - d) - x)
calculateRest(q, d, x) ==
    IF ~Ok(q) THEN q
    ELSE IF ~Ok(d) THEN d
    ELSE IF ~Ok(x) THEN x
    ELSE CurrencyNew(Dec(RSub(RMul(q.val, RSub(ROne, d.val)), x.val)))

\* calculate on its converted operands s, m, d, x, which are evaluated
\* left to right: Currency(s / (1 - m) * (1 - d) - x)
calculateOf(s, m, d, x) ==
    IF ~Ok(s) THEN s
    ELSE IF ~Ok(m) THEN m
    ELSE calculateRest(DecimalDivide(s.val, RSub(ROne, m.val)), d, x)

\* calculate(subtotal, margin, multiplier, deduction)
calculate(subtotal, margin, multiplier, deduction) ==
    calculateOf(CurrencyNew(subtotal), PercentageNew(margin),
                PercentageNew(multiplier), CurrencyNew(deduction))

\* calculate(*a) for 0 to 4 positional arguments
calculateCall(a) ==
    LET arg(i) == IF i <= Len(a) THEN a[i] ELSE DefaultArg
    IN  calculate(arg(1), arg(2), arg(3), arg(4))

---------------------------------------------------------------------------
(* jobcalc/utils.py: flatten, and the sums over flattened collections. *)

\* the default of flatten's ignoretypes: str
DefaultIgnoretypes == {"str"}

\* the values that have __iter__, apart from text
Iterables == {"list", "tuple"}

\* what a generator has yielded so far followed by what comes after it
Chain(yielded, after) ==
    IF ~Ok(yielded) THEN yielded
    ELSE IF ~Ok(after) THEN after
    ELSE Return(yielded.val \o after.val)

RECURSIVE flattenIgnoring(_, _)

\* one round of flatten's loop: a value of an ignored type is yielded
\* whole, an iterable is flattened in place, anything else is yielded.  A
\* text that is not ignored is iterated: each of its characters is a text
\* of one character again, which never ends but with RecursionError
flattenValue(value, ignoretypes) ==
    IF value.t \in ignoretypes THEN Return(<<value>>)
    ELSE IF value.t \in Iterables
         THEN flattenIgnoring(value.items, ignoretypes)
    ELSE IF value.t = "str"
         THEN IF value.s = <<>> THEN Return(<<>>) ELSE Raise(RecursionError)
    ELSE Return(<<value>>)

\* list(flatten(*values, ignoretypes=ignoretypes))
flattenIgnoring(values, ignoretypes) ==
    IF values = <<>> THEN Return(<<>>)
    ELSE Chain(flattenValue(Head(values), ignoretypes),
               flattenIgnoring(Tail(values), ignoretypes))

\* list(flatten(*values)) with the default ignoretypes, which always ends
flatten(values) == flattenIgnoring(values, DefaultIgnoretypes).val

RECURSIVE SumSeq(_)
SumSeq(rs) == IF rs = <<>> THEN RZero ELSE RAdd(Head(rs), SumSeq(Tail(rs)))

Min(S) == CHOOSE k \in S : \A j \in S : k <= j

\* sum(...) were it to pass over the entries that do not convert
SumOutcomesSkipInvalid(outs) ==
    Return(SumSeq([k \in DOMAIN SelectSeq(outs, Ok)
                      |-> SelectSeq(outs, Ok)[k].val]))

\* sum(...) over a lazily mapped sequence of outcomes: the first failure
\* is raised, otherwise the sum, which starts from 0
SumOutcomes(outs) ==
    IF {k \in DOMAIN outs : ~Ok(outs[k])} # {}
    THEN outs[Min({k \in DOMAIN outs : ~Ok(outs[k])})]
    ELSE Return(SumSeq([k \in DOMAIN outs |-> outs[k].val]))

\* map(Percentage, leaves)
Percentages(leaves) == [k \in DOMAIN leaves |-> PercentageNew(leaves[k])]

\* the leaves read as numbers with their signs kept
CurrenciesSigned(leaves) == [k \in DOMAIN leaves |-> DecimalOf(leaves[k])]

\* map(Currency, leaves)
Currencies(leaves) == [k \in DOMAIN leaves |-> CurrencyNew(leaves[k])]

\* Percentage(summed), when the sum did not fail
PercentageOfOutcome(summed) ==
    IF Ok(summed) THEN PercentageNew(Dec(summed.val)) ELSE summed

\* Currency(summed), when the sum did not fail
CurrencyOfOutcome(summed) ==
    IF Ok(summed) THEN CurrencyNew(Dec(summed.val)) ELSE summed

\* Percentage(sum(map(Percentage, flatten(items))))
PercentageOfSum(items) ==
    PercentageOfOutcome(SumOutcomes(Percentages(flatten(items))))

\* Currency(sum(map(Currency, flatten(items))))
CurrencyOfSum(items) ==
    CurrencyOfOutcome(SumOutcomes(Currencies(flatten(items))))

---------------------------------------------------------------------------
(* jobcalc/core.py: BaseCalculator.  h is the heap of calculator objects,  *)
(* i the id of self.                                                       *)

\* bool(value)
Truthy(value) ==
    CASE value.t = "str" -> value.s # <<>>
      [] value.t = "list" -> value.items # <<>>
      [] value.t = "tuple" -> value.items # <<>>
      [] value.t = "dict" -> DOMAIN value.d # {}
      [] value.t = "bool" -> value.b
      [] value.t = "dec" -> value.v # RZero
      [] value.t = "None" -> FALSE
      [] OTHER -> TRUE

\* BaseCalculator.__init__: every argument that is not empty becomes the
\* one element of its collection
BaseCalculatorInit(costs, margins, discounts, deductions, ignore_margins) ==
    [ignore_margins |-> ignore_margins,
     costs |-> IF Truthy(costs) THEN <<costs>> ELSE <<>>,
     deductions |-> IF Truthy(deductions) THEN <<deductions>> ELSE <<>>,
     margins |-> IF Truthy(margins) THEN <<margins>> ELSE <<>>,
     discounts |-> IF Truthy(discounts) THEN <<discounts>> ELSE <<>>]

RECURSIVE subtotal(_, _, _)
RECURSIVE ctx(_, _, _)
RECURSIVE total(_, _)
RECURSIVE SubtotalOfChild(_, _)
RECURSIVE TotalOfChild(_, _)

\* the end of BaseCalculator.subtotal: looped[k] is what the loop got for
\* costs[k]; the failure of a nested calculator has ended the loop,
\* otherwise Currency(sum(map(Currency, totals)))
SubtotalOfLoop(costs, looped) ==
    IF \E k \in DOMAIN costs : ~Ok(looped[k])
    THEN looped[Min({k \in DOMAIN costs : ~Ok(looped[k])})]
    ELSE CurrencyOfSum(
            [k \in DOMAIN costs |->
                IF costs[k].t = "calc" THEN Dec(looped[k].val) ELSE costs[k]])

\* the loop of subtotal were it to look at its parameter only and not at
\* the ignore_margins attribute of self
SubtotalLoopParameterOnly(h, i, ignore_margins, costs) ==
    [k \in DOMAIN costs |->
        IF costs[k].t = "calc"
        THEN IF ignore_margins = "True"
             THEN SubtotalOfChild(h, costs[k].id)
             ELSE TotalOfChild(h, costs[k].id)
        ELSE Return(costs[k])]

\* the loop of subtotal were a nested calculator whose ignore_margins is
\* False to give its total() whatever the caller asks for
SubtotalLoopChildOptsOut(h, i, ignore_margins, costs) ==
    [k \in DOMAIN costs |->
        IF costs[k].t = "calc"
        THEN IF /\ ignore_margins = "True" \/ h[i].ignore_margins = "True"
                /\ h[costs[k].id].ignore_margins # "False"
             THEN SubtotalOfChild(h, costs[k].id)
             ELSE TotalOfChild(h, costs[k].id)
        ELSE Return(costs[k])]

\* the loop of BaseCalculator.subtotal over the flattened costs: a nested
\* calculator gives its subtotal(True) or its total(), another cost itself
SubtotalLoop(h, i, ignore_margins, costs) ==
    [k \in DOMAIN costs |->
        IF costs[k].t = "calc"
        THEN IF ignore_margins = "True" \/ h[i].ignore_margins = "True"
             THEN SubtotalOfChild(h, costs[k].id)
             ELSE TotalOfChild(h, costs[k].id)
        ELSE Return(costs[k])]

\* BaseCalculator.subtotal(self, ignore_margins)
subtotal(h, i, ignore_margins) ==
    SubtotalOfLoop(flatten(h[i].costs),
                   SubtotalLoop(h, i, ignore_margins, flatten(h[i].costs)))

\* Context(subtotal=s, margin=m, discount=d, deduction=x), the fields
\* evaluated in this order
ContextOf(s, m, d, x) ==
    IF ~Ok(s) THEN s
    ELSE IF ~Ok(m) THEN m
    ELSE IF ~Ok(d) THEN d
    ELSE IF ~Ok(x) THEN x
    ELSE Return([subtotal |-> s.val, margin |-> m.val,
                 discount |-> d.val, deduction |-> x.val])

\* BaseCalculator.ctx(self, ignore_margins)
ctx(h, i, ignore_margins) ==
    ContextOf(subtotal(h, i, ignore_margins),
              PercentageOfSum(h[i].margins),
              PercentageOfSum(h[i].discounts),
              CurrencyOfSum(h[i].deductions))

\* self.calculate(*c) for the Context c that self.ctx() gave
CalculateContext(c) ==
    IF ~Ok(c) THEN c
    ELSE calculate(Dec(c.val.subtotal), Dec(c.val.margin),
                   Dec(c.val.discount), Dec(c.val.deduction))

\* BaseCalculator.total(self)
total(h, i) == CalculateContext(ctx(h, i, "False"))

---------------------------------------------------------------------------
(* jobcalc/config.py: Config, with no JOBCALC_ variable in the environment. *)
(* An object is the function from its attribute names to their values.      *)

\* the empty dict
EmptyDict == Dict(<<>>)

\* str(value) if value else default
StrOrDefault(value, default) ==
    IF Truthy(value) THEN Str(PyStr(value)) ELSE Str(default)

\* Config(rate=rate, default_hours=default_hours)
ConfigInit(rate, default_hours) ==
    [debug |-> Bool(FALSE),
     seperator |-> Str(<<";">>),
     divider |-> Str(<<":">>),
     rate |-> StrOrDefault(rate, <<"0">>),
     default_hours |-> StrOrDefault(default_hours, <<"0">>),
     margins |-> EmptyDict,
     discounts |-> EmptyDict,
     deductions |-> EmptyDict]

---------------------------------------------------------------------------
(* jobcalc/formatters.py: the formatters that a Calculator renders with. *)

\* the class BasicFormatter
BasicFormatter == [t |-> "BasicFormatter"]

\* TerminalFormatter(no_colors=True, color_header=True): __init__ sets
\* self.colors only when no_colors is False
TerminalFormatterNoColors ==
    [t |-> "TerminalFormatter", no_colors |-> TRUE, color_header |-> TRUE]

\* TerminalFormatter.render of that formatter on the outcome of
\* calculator.ctx(): with color_header the headers are zipped with
\* self.colors before anything else, an attribute the formatter lacks
TerminalFormatterRender(formatter, c) ==
    IF ~Ok(c) THEN c ELSE Raise("AttributeError")

\* FormulaFormatter(formula_string='{field}', no_color=True, title=title)
FormulaFormatter(title, field) ==
    [t |-> "FormulaFormatter", title |-> title, field |-> field]

\* separator.join(texts)
RECURSIVE Join(_, _)
Join(separator, texts) ==
    IF texts = <<>> THEN <<>>
    ELSE IF Len(texts) = 1 THEN texts[1]
    ELSE texts[1] \o separator \o Join(separator, Tail(texts))

\* '-' * n
RECURSIVE Dashes(_)
Dashes(n) == IF n = 0 THEN <<>> ELSE <<"-">> \o Dashes(n - 1)

\* BasicFormatter.render: calculator.total().formatted_string()
BasicFormatterRender(totalled) ==
    IF Ok(totalled) THEN Return(CurrencyFormattedString(totalled.val))
    ELSE totalled

\* the text of the field of TotaledContext(*ctx, total) named by the
\* formula string, every field formatted with formatted_string()
FormulaField(field, c, totalled) ==
    CASE field = "subtotal" -> CurrencyFormattedString(c.subtotal)
      [] field = "margin" -> PercentageFormattedString(c.margin)
      [] field = "discount" -> PercentageFormattedString(c.discount)
      [] field = "deduction" -> CurrencyFormattedString(c.deduction)
      [] field = "total" -> CurrencyFormattedString(totalled)

\* FormulaFormatter.render on the outcomes of calculator.ctx() and
\* calculator.total(): the title, a rule under it and the formula
FormulaFormatterRender(formatter, c, totalled) ==
    IF ~Ok(c) THEN c
    ELSE IF ~Ok(totalled) THEN totalled
    ELSE Return(Join(<<"\n">>,
                     <<formatter.title, Dashes(Len(formatter.title)),
                       FormulaField(formatter.field, c.val, totalled.val)>>))

---------------------------------------------------------------------------
(* jobcalc/core.py: Calculator.  self is the calculator object; its costs  *)
(* hold no other calculators.                                              *)

HourlyRateError == "HourlyRateError"
InvalidFormatter == "InvalidFormatter"
TypeError == "TypeError"
ValueError == "ValueError"

\* decimal.Decimal(value): a text is parsed, a number is taken, a list or
\* tuple that is not (sign, digits, exponent) is a ValueError and any
\* other object a TypeError
DecimalNew(value) ==
    CASE value.t = "str" -> DecimalOfText(value.s)
      [] value.t = "dec" -> Return(value.v)
      [] value.t = "bool" -> Return(IF value.b THEN ROne ELSE RZero)
      [] value.t \in {"list", "tuple"} -> Raise(ValueError)
      [] OTHER -> Raise(TypeError)

\* the property Calculator.rate: decimal.Decimal(self._rate)
rate(self) == DecimalNew(self._rate).val

\* the setter of Calculator.rate on the outcome of decimal.Decimal(value):
\* InvalidOperation and TypeError are logged, another failure is raised
RateSetterOf(self, parsed) ==
    IF Ok(parsed)
    THEN IF RLe(RZero, parsed.val)
         THEN Return([self EXCEPT !._rate = Dec(parsed.val)])
         ELSE Return(self)
    ELSE IF parsed.exc \in {InvalidOperation, TypeError} THEN Return(self)
    ELSE parsed

\* self.rate = value
RateSetter(self, value) == RateSetterOf(self, DecimalNew(value))

\* the keyword arguments of Calculator that were not given
NoKwargs ==
    [costs |-> List(<<>>), margins |-> List(<<>>), discounts |-> List(<<>>),
     deductions |-> List(<<>>), ignore_margins |-> "None",
     formatters |-> List(<<>>), hours |-> List(<<>>), rate |-> None,
     config |-> None]

\* the attributes of a Calculator before its rate is assigned
CalculatorAttributes(base, kw, config) ==
    [ignore_margins |-> base.ignore_margins,
     costs |-> base.costs,
     deductions |-> base.deductions,
     margins |-> base.margins,
     discounts |-> base.discounts,
     config |-> config,
     formatters |-> IF Truthy(kw.formatters) THEN <<kw.formatters>> ELSE <<>>,
     hours |-> (IF Truthy(kw.hours) THEN <<kw.hours>> ELSE <<>>)
               \o (IF config.default_hours # Str(<<"0">>)
                   THEN <<config.default_hours>> ELSE <<>>),
     _rate |-> Str(<<"0">>)]

\* Calculator.__init__ from where the config is known
CalculatorInitWith(kw, config) ==
    RateSetter(
        CalculatorAttributes(
            BaseCalculatorInit(kw.costs, kw.margins, kw.discounts,
                               kw.deductions, kw.ignore_margins),
            kw, config),
        IF kw.rate # None THEN kw.rate ELSE config.rate)

\* Calculator(**kw)
CalculatorInit(kw) ==
    CalculatorInitWith(kw, IF kw.config # None THEN kw.config
                           ELSE ConfigInit(None, None))

\* setattr(obj, key, value)
setattr(obj, key, value) ==
    [k \in DOMAIN obj \cup {key} |-> IF k = key THEN value ELSE obj[k]]

\* the subclass CustomCalc of the tests: CustomCalc(someattr=value, **kw)
CustomCalcInit(kw, value) ==
    IF Ok(CalculatorInit(kw))
    THEN Return(setattr(CalculatorInit(kw).val, "someattr", value))
    ELSE CalculatorInit(kw)

\* map(decimal.Decimal, leaves)
Decimals(leaves) == [k \in DOMAIN leaves |-> DecimalNew(leaves[k])]

\* Calculator._hours(self)
Hours(self) == SumOutcomes(Decimals(flatten(self.hours)))

\* the subtotal of a Calculator with the hours left out
CalculatorSubtotalCostsOnly(costs, r, hours) ==
    IF ~Ok(costs) THEN costs
    ELSE IF ~Ok(hours) THEN hours
    ELSE CurrencyNew(Dec(costs.val))

\* Currency(costs + (rate * hours)) on the outcomes of its operands
CalculatorSubtotalOf(costs, r, hours) ==
    IF ~Ok(costs) THEN costs
    ELSE IF ~Ok(hours) THEN hours
    ELSE CurrencyNew(Dec(RAdd(costs.val, RMul(r, hours.val))))

\* Calculator.subtotal(self, ignore_margins)
CalculatorSubtotal(self, ignore_margins) ==
    CalculatorSubtotalOf(subtotal(<<self>>, 1, ignore_margins), rate(self),
                         Hours(self))

\* Calculator.ctx failing on hours without a rate whatever strict is
CalculatorCtxAlwaysStrict(self, r, hours, strict) ==
    IF ~Ok(hours) THEN hours
    ELSE IF RLt(RZero, hours.val) /\ ~RLt(RZero, r)
         THEN Raise(HourlyRateError)
    ELSE ContextOf(CalculatorSubtotal(self, "False"),
                   PercentageOfSum(self.margins),
                   PercentageOfSum(self.discounts),
                   CurrencyOfSum(self.deductions))

\* the check of Calculator.ctx on the hours, and then the Context of
\* BaseCalculator.ctx with the subtotal of the Calculator
CalculatorCtxOf(self, r, hours, strict) ==
    IF ~Ok(hours) THEN hours
    ELSE IF RLt(RZero, hours.val) /\ ~RLt(RZero, r) /\ strict
         THEN Raise(HourlyRateError)
    ELSE ContextOf(CalculatorSubtotal(self, "False"),
                   PercentageOfSum(self.margins),
                   PercentageOfSum(self.discounts),
                   CurrencyOfSum(self.deductions))

\* Calculator.ctx(self, strict)
CalculatorCtx(self, strict) ==
    CalculatorCtxOf(self, rate(self), Hours(self), strict)

\* Calculator.total(self)
CalculatorTotal(self) == CalculateContext(CalculatorCtx(self, FALSE))

\* formatter.render(self) for one of the flattened formatters: a value
\* without a render method is an AttributeError
FormatterRender(self, formatter) ==
    CASE formatter.t = "BasicFormatter" ->
            BasicFormatterRender(CalculatorTotal(self))
      [] formatter.t = "FormulaFormatter" ->
            FormulaFormatterRender(formatter, CalculatorCtx(self, FALSE),
                                   CalculatorTotal(self))
      [] formatter.t = "TerminalFormatter" ->
            TerminalFormatterRender(formatter, CalculatorCtx(self, FALSE))
      [] OTHER -> Raise("AttributeError")

\* str(seperator).join(map(render, formatters)): the first failure ends
\* it, an AttributeError as InvalidFormatter
RenderJoin(separator, rendered) ==
    IF \E k \in DOMAIN rendered : ~Ok(rendered[k])
    THEN IF rendered[Min({k \in DOMAIN rendered : ~Ok(rendered[k])})].exc
              = "AttributeError"
         THEN Raise(InvalidFormatter)
         ELSE rendered[Min({k \in DOMAIN rendered : ~Ok(rendered[k])})]
    ELSE Return(Join(separator, [k \in DOMAIN rendered |-> rendered[k].val]))

\* the renders joined by the default separator whatever is asked for
RenderAllDefaultSeparator(self, separator, formatters) ==
    RenderJoin(<<"\n", "\n">>,
               [k \in DOMAIN formatters |-> FormatterRender(self, formatters[k])])

\* the renders of the formatters, of BasicFormatter when there is none
RenderAll(self, separator, formatters) ==
    RenderJoin(separator,
               [k \in DOMAIN formatters |-> FormatterRender(self, formatters[k])])

\* the first lines of render were formatters the list self.formatters
\* itself: BasicFormatter is appended to the list of the calculator
RenderFormattersShared(self) ==
    [self |-> [self EXCEPT !.formatters =
                  IF flatten(@) = <<>> THEN Append(@, BasicFormatter) ELSE @],
     formatters |-> IF flatten(self.formatters) = <<>> THEN <<BasicFormatter>>
                    ELSE flatten(self.formatters)]

\* the first lines of render: formatters = list(flatten(self.formatters))
\* is a new list, and BasicFormatter is appended to it when it is empty;
\* self is the calculator after these lines
RenderFormattersOf(self) ==
    [self |-> self,
     formatters |-> IF flatten(self.formatters) = <<>> THEN <<BasicFormatter>>
                    ELSE flatten(self.formatters)]

\* Calculator.render(self, seperator)
render(self, separator) ==
    RenderAll(self, separator, RenderFormattersOf(self).formatters)

\* the attributes that BaseCalculator.__init__ and Calculator.__init__
\* make lists
ListFields ==
    {"costs", "margins", "discounts", "deductions", "hours", "formatters"}

\* the value of the attribute ignore_margins
FlagValue(flag) == IF flag = "None" THEN None ELSE Bool(flag = "True")

\* the attribute ignore_margins holding value, None or a bool
FlagOf(value) ==
    IF value.t = "bool" THEN IF value.b THEN "True" ELSE "False" ELSE "None"

\* getattr(self, key, None) for a calculator self
getattrOfCalculator(self, key) ==
    IF key = "rate" THEN Dec(rate(self))
    ELSE IF key \notin DOMAIN self THEN None
    ELSE IF key \in ListFields THEN List(self[key])
    ELSE IF key = "ignore_margins" THEN FlagValue(self[key])
    ELSE self[key]

\* getattr(self.config, key, None)
getattrOfConfig(config, key) ==
    IF key \in DOMAIN config THEN config[key] ELSE None

\* setattr(self, key, value) for a calculator self
setattrOfCalculator(self, key, value) ==
    IF key \in ListFields /\ value.t = "list"
    THEN setattr(self, key, value.items)
    ELSE IF key = "ignore_margins" THEN setattr(self, key, FlagOf(value))
    ELSE setattr(self, key, value)

\* update with the list appended to left as it is, for append=True
updateWithoutAppend(self, attr, inconfig, append, key, value) ==
    IF attr.t = "list" /\ append THEN Return(self)
    ELSE IF attr.t = "list" /\ ~append
         THEN Return(setattrOfCalculator(self, key, List(<<value>>)))
    ELSE IF key = "rate" THEN RateSetter(self, value)
    ELSE IF ~inconfig THEN Return(setattrOfCalculator(self, key, value))
    ELSE Return([self EXCEPT !.config = setattr(self.config, key, value)])

\* one round of the loop of Calculator.update, for the keyword key=value,
\* from where attr and inconfig are known
updateWith(self, attr, inconfig, append, key, value) ==
    IF attr.t = "list" /\ append
    THEN IF inconfig
         THEN Return([self EXCEPT !.config =
                         setattr(self.config, key,
                                 List(Append(attr.items, value)))])
         ELSE Return(setattrOfCalculator(self, key,
                                         List(Append(attr.items, value))))
    ELSE IF attr.t = "list" /\ ~append
         THEN Return(setattrOfCalculator(self, key, List(<<value>>)))
    ELSE IF key = "rate" THEN RateSetter(self, value)
    ELSE IF ~inconfig THEN Return(setattrOfCalculator(self, key, value))
    ELSE Return([self EXCEPT !.config = setattr(self.config, key, value)])

\* one round of the loop of Calculator.update: the attribute is looked up
\* on the calculator and, when that gives None, on its config
updateKey(self, append, key, value) ==
    IF getattrOfCalculator(self, key) # None
    THEN updateWith(self, getattrOfCalculator(self, key), FALSE,
                    append, key, value)
    ELSE updateWith(self, getattrOfConfig(self.config, key), TRUE,
                    append, key, value)

\* a call that raised e and left the object as self
Failed(e, self) == [exc |-> e, val |-> self]

\* Calculator.update(self, append=append, **kwargs) for the keywords
\* kwargs, a sequence of <<key, value>>, in their order: the calculator as
\* the call leaves it
RECURSIVE update(_, _, _)
update(self, append, kwargs) ==
    IF kwargs = <<>> THEN Return(self)
    ELSE IF Ok(updateKey(self, append, kwargs[1][1], kwargs[1][2]))
         THEN update(updateKey(self, append, kwargs[1][1], kwargs[1][2]).val,
                     append, Tail(kwargs))
    ELSE Failed(updateKey(self, append, kwargs[1][1], kwargs[1][2]).exc, self)

\* the object is a Calculator, not a plain BaseCalculator
IsCalculator(self) == "_rate" \in DOMAIN self

\* cost.subtotal(True) for the nested calculator cost = h[id], by the
\* class of the object; a nested Calculator holds no calculators itself
SubtotalOfChild(h, id) ==
    IF IsCalculator(h[id]) THEN CalculatorSubtotal(h[id], "True")
    ELSE subtotal(h, id, "True")

\* cost.total() for the nested calculator cost = h[id], by the class of
\* the object
TotalOfChild(h, id) ==
    IF IsCalculator(h[id]) THEN CalculatorTotal(h[id])
    ELSE total(h, id)

---------------------------------------------------------------------------
(* jobcalc/utils.py: parse_input_string and dict_from_env_string.          *)

InvalidEnvString == "InvalidEnvString"
NotCallableError == "NotCallableError"

\* the characters that str.strip() removes
Whitespace == {" ", "\t", "\n"}

\* text.lstrip()
RECURSIVE LStrip(_)
LStrip(text) ==
    IF text # <<>> /\ Head(text) \in Whitespace THEN LStrip(Tail(text))
    ELSE text

\* text.rstrip()
RECURSIVE RStrip(_)
RStrip(text) ==
    IF text # <<>> /\ text[Len(text)] \in Whitespace
    THEN RStrip(SubSeq(text, 1, Len(text) - 1))
    ELSE text

\* text.strip()
StrStrip(text) == RStrip(LStrip(text))

\* the rest of text.split(sep) when token is what was read since the last
\* separator; sep is not empty
RECURSIVE SplitFrom(_, _, _)
SplitFrom(text, sep, token) ==
    IF text = <<>> THEN <<token>>
    ELSE IF Len(text) >= Len(sep) /\ SubSeq(text, 1, Len(sep)) = sep
         THEN <<token>>
              \o SplitFrom(SubSeq(text, Len(sep) + 1, Len(text)), sep, <<>>)
    ELSE SplitFrom(Tail(text), sep, Append(token, Head(text)))

\* text.split(sep): an empty separator is a ValueError
Split(text, sep) ==
    IF sep = <<>> THEN Raise(ValueError)
    ELSE Return(SplitFrom(text, sep, <<>>))

\* a callable given as convert or type: float or Currency
Callable(name) == [t |-> "callable", name |-> name]

\* callable(value)
callable(value) == value.t = "callable"

\* a float, and a Currency, of the value r
Float(r) == [t |-> "float", v |-> r]
CurrencyValue(r) == [t |-> "Currency", v |-> r]

\* float(text) for the texts read as decimals: another text is a ValueError
FloatOfText(text) ==
    IF Ok(DecimalOfText(text)) THEN Return(Float(DecimalOfText(text).val))
    ELSE Raise(ValueError)

\* Currency(text) as a value
CurrencyOfText(text) ==
    IF Ok(CurrencyNew(Str(text)))
    THEN Return(CurrencyValue(CurrencyNew(Str(text)).val))
    ELSE CurrencyNew(Str(text))

\* tuple(map(convert, texts)): the first failure ends it
TupleOfOutcomes(outcomes) ==
    IF \E k \in DOMAIN outcomes : ~Ok(outcomes[k])
    THEN outcomes[Min({k \in DOMAIN outcomes : ~Ok(outcomes[k])})]
    ELSE Return(Tuple([k \in DOMAIN outcomes |-> outcomes[k].val]))

\* decimal.Decimal(text) as a value
DecimalValueOfText(text) ==
    IF Ok(DecimalOfText(text)) THEN Return(Dec(DecimalOfText(text).val))
    ELSE DecimalOfText(text)

\* the tokens that parse_input_value hands to the convert method of a
\* click type: the parts of the text between ';' that are not '', trimmed
\* (no JOBCALC_* dict is set, so check_env_dict hands them on)
ParsedInputValue(text) ==
    [k \in DOMAIN SelectSeq(SplitFrom(StrStrip(text), <<";">>, <<>>),
                            LAMBDA token : token # <<>>)
        |-> StrStrip(SelectSeq(SplitFrom(StrStrip(text), <<";">>, <<>>),
                               LAMBDA token : token # <<>>)[k])]

\* the Currency, or the Percentage, of a token as a value
CurrencyOfToken(token) ==
    IF Ok(CurrencyNew(Str(token))) THEN Return(Dec(CurrencyNew(Str(token)).val))
    ELSE CurrencyNew(Str(token))
PercentageOfToken(token) ==
    IF Ok(PercentageNew(Str(token)))
    THEN Return(Dec(PercentageNew(Str(token)).val))
    ELSE PercentageNew(Str(token))

\* BaseCurrencyType.convert on the tokens: one token gives a Currency,
\* more a tuple of them; an error of Currency is raised as it is
BaseCurrencyTypeConvert(values) ==
    IF Len(values) = 1 THEN CurrencyOfToken(values[1])
    ELSE TupleOfOutcomes([k \in DOMAIN values |->
                                 CurrencyOfToken(values[k])])

\* the error self.fail raises
BadParameter == "click.BadParameter"

\* BasePercentageType.convert on the tokens: one token gives a
\* Percentage, more a tuple of them; an error of Percentage is handed to
\* self.fail
BasePercentageTypeOf(converted) ==
    IF Ok(converted) THEN converted ELSE Raise(BadParameter)

BasePercentageTypeConvert(values) ==
    BasePercentageTypeOf(
        IF Len(values) = 1 THEN PercentageOfToken(values[1])
        ELSE TupleOfOutcomes([k \in DOMAIN values |->
                                     PercentageOfToken(values[k])]))

\* convert(text): _return_input when no callable was given
Convert(convert, text) ==
    IF ~callable(convert) THEN Return(Str(text))
    ELSE IF convert.name = "float" THEN FloatOfText(text)
    ELSE IF convert.name = "Decimal" THEN DecimalValueOfText(text)
    ELSE IF convert.name \in {"MARGIN", "DISCOUNT"}
         THEN BasePercentageTypeConvert(ParsedInputValue(text))
    ELSE IF convert.name \in {"COSTS", "DEDUCTION"}
         THEN BaseCurrencyTypeConvert(ParsedInputValue(text))
    ELSE CurrencyOfText(text)

\* the tokens that are not '' as they come from the split
NotEmpty(token) == token # <<>>

\* parse_input_string from the split on: the tokens that are not '' are
\* trimmed and converted
parse_input_stringOf(tokens, convert) ==
    TupleOfOutcomes(
        [k \in DOMAIN SelectSeq(tokens, NotEmpty) |->
            Convert(convert, StrStrip(SelectSeq(tokens, NotEmpty)[k]))])

\* parse_input_string(string, seperator=seperator, convert=convert)
parse_input_string(string, seperator, convert) ==
    IF ~Ok(Split(StrStrip(PyStr(string)), seperator))
    THEN Split(StrStrip(PyStr(string)), seperator)
    ELSE parse_input_stringOf(Split(StrStrip(PyStr(string)), seperator).val,
                              convert)

\* the text of seperator or divider, default when None is given (no
\* JOBCALC_SEPERATOR or JOBCALC_DIVIDER in the environment)
TextOrDefault(value, default) ==
    IF value = None THEN default ELSE PyStr(value)

\* one round of the dict comprehension on the split token parts and the
\* converted value: a token that is not key and value, and a ValueError of
\* the converter, are InvalidEnvString; another failure is raised as it is
PairInto(d, parts, converted) ==
    IF ~Ok(parts) \/ Len(parts.val) # 2 THEN Raise(InvalidEnvString)
    ELSE IF ~Ok(converted)
         THEN IF converted.exc = ValueError THEN Raise(InvalidEnvString)
              ELSE converted
    ELSE Return(setattr(d, parts.val[1], converted.val))

\* the value of the round, converted when the token has one
ConvertedPart(type, parts) ==
    IF Ok(parts) /\ Len(parts.val) = 2 THEN Convert(type, parts.val[2])
    ELSE Raise(InvalidEnvString)

\* the dict comprehension over the tokens in their order, d the pairs so
\* far
RECURSIVE DictOfTokens(_, _, _, _)
DictOfTokens(tokens, divider, type, d) ==
    IF tokens = <<>> THEN Return(Dict(d))
    ELSE IF Ok(PairInto(d, Split(Head(tokens), divider),
                        ConvertedPart(type, Split(Head(tokens), divider))))
         THEN DictOfTokens(
                  Tail(tokens), divider, type,
                  PairInto(d, Split(Head(tokens), divider),
                           ConvertedPart(type,
                                         Split(Head(tokens), divider))).val)
    ELSE PairInto(d, Split(Head(tokens), divider),
                  ConvertedPart(type, Split(Head(tokens), divider)))

\* token.split(divider) gives a key and a value
IsPair(token, divider) ==
    Ok(Split(token, divider)) /\ Len(Split(token, divider).val) = 2

\* dict_from_env_string that leaves out the tokens that are no pair and
\* returns the other pairs
dict_from_env_stringPartial(tokens, divider, type) ==
    IF ~Ok(tokens) THEN tokens
    ELSE DictOfTokens(SelectSeq(tokens.val,
                                LAMBDA token : IsPair(token, divider)),
                      divider, type, <<>>)

\* dict_from_env_string from the split by the separator on
dict_from_env_stringOf(tokens, divider, type) ==
    IF ~Ok(tokens) THEN tokens
    ELSE DictOfTokens(tokens.val, divider, type, <<>>)

\* dict_from_env_string(string, seperator=seperator, divider=divider,
\*                      type=type)
dict_from_env_string(string, seperator, divider, type) ==
    IF string = None \/ string = Str(<<>>) THEN Return(EmptyDict)
    ELSE IF string.t = "dict" THEN Return(string)
    ELSE IF Truthy(type) /\ ~callable(type) THEN Raise(NotCallableError)
    ELSE dict_from_env_stringOf(
             Split(PyStr(string), TextOrDefault(seperator, <<";">>)),
             TextOrDefault(divider, <<":">>), type)

\* one character of text.lower(), for the letters of 'true' and 'false'
LowerChar(c) ==
    CASE c = "T" -> "t" [] c = "R" -> "r" [] c = "U" -> "u" [] c = "E" -> "e"
      [] c = "F" -> "f" [] c = "A" -> "a" [] c = "L" -> "l" [] c = "S" -> "s"
      [] OTHER -> c

\* text.lower()
Lower(text) == [k \in DOMAIN text |-> LowerChar(text[k])]

\* int(text) for a text without whitespace around it: an optional sign and
\* then digits only, at least one
IntOfStripped(text) ==
    IF text # <<>> /\ text[1] \in {"+", "-"}
    THEN IF Len(text) > 1 /\ \A k \in 2..Len(text) : IsDigit(text[k])
         THEN Return(IF text[1] = "-" THEN -NatOf(Tail(text))
                     ELSE NatOf(Tail(text)))
         ELSE Raise(ValueError)
    ELSE IF text # <<>> /\ \A k \in DOMAIN text : IsDigit(text[k])
         THEN Return(NatOf(text))
    ELSE Raise(ValueError)

\* int(value): a text is read, whitespace around it left out; a number is
\* cut to its whole part; True and False are 1 and 0; None and other
\* objects are a TypeError
IntOf(value) ==
    CASE value.t = "str" -> IntOfStripped(StrStrip(value.s))
      [] value.t = "dec" ->
            Return(IF value.v[1] >= 0 THEN value.v[1] \div value.v[2]
                   ELSE -((-value.v[1]) \div value.v[2]))
      [] value.t = "bool" -> Return(IF value.b THEN 1 ELSE 0)
      [] OTHER -> Raise(TypeError)

\* bool_from_env_string on str(string) and the outcome of int(string): any
\* failure of int() is caught
bool_from_env_stringOf(text, int_value) ==
    IF Lower(text) = <<"f", "a", "l", "s", "e">> \/ text = <<>> THEN FALSE
    ELSE IF Lower(text) = <<"t", "r", "u", "e">> THEN TRUE
    ELSE IF Ok(int_value) THEN int_value.val = 1
    ELSE FALSE

\* bool_from_env_string(string)
bool_from_env_string(string) ==
    bool_from_env_stringOf(PyStr(string), IntOf(string))

---------------------------------------------------------------------------
(* The value types and calculate as called by a client: the state is the   *)
(* client's call and its outcome, followed by the reparses of the          *)
(* formatted result.                                                       *)

\* the characters of the input texts
Alphabet == {"0", "1", "5", "9", ".", "-", "%", "$", ","}

\* every text of at most MaxStrLen characters
Texts == UNION {[1..n -> Alphabet] : n \in 0..MaxStrLen}

\* the numbers m * 10^e
Numbers ==
    {IF e >= 0 THEN Norm(m * Pow10(e), 1) ELSE Norm(m, Pow10(-e)) :
        m \in (-MaxMant)..MaxMant, e \in (-MaxExp)..MaxExp}

\* what a client passes to Percentage(...) and Currency(...)
Values == {Str(s) : s \in Texts} \cup {Dec(r) : r \in Numbers} \cup {Obj}

\* what a client passes to calculate for a subtotal or a deduction
AmountArgs ==
    {Str(<<"1", "2", "3", "4">>), Str(<<"3", "0", "0">>), Str(<<"-", "5">>),
     Str(<<"$", "9">>), Dec(RInt(2000)), Str(<<"x">>)}

\* what a client passes to calculate for a margin or a multiplier
PercentArgs ==
    {Str(<<"5", "0">>), Str(<<".", "5">>), Str(<<"1", "0">>), Str(<<".", "1">>),
     Str(<<"1", "1", "0">>), Str(<<"-", "1">>), Dec(RInt(100)),
     Str(<<"9", ".", "5", "%">>), Obj}

\* calculate's positional arguments, trailing ones left to their defaults
CalculateArgs ==
    {<<>>}
    \cup {<<s>> : s \in AmountArgs}
    \cup {<<s, m>> : s \in AmountArgs, m \in PercentArgs}
    \cup {<<s, m, d>> : s \in AmountArgs, m \in PercentArgs, d \in PercentArgs}
    \cup {<<s, m, d, x>> : s \in AmountArgs, m \in PercentArgs,
                           d \in PercentArgs, x \in AmountArgs}

NoCalcs == <<>>

InitTypes ==
    /\ calcs = NoCalcs
    /\ op = "none"
    /\ args = <<>>
    /\ ret = Return(None)
    /\ updates = 0

\* Percentage(value)
CallPercentage ==
    \E value \in Values :
        /\ op = "none"
        /\ op' = "Percentage"
        /\ args' = <<value>>
        /\ ret' = PercentageNew(value)
        /\ UNCHANGED calcs
    /\ UNCHANGED updates

\* Percentage(p.formatted_string()) for the Percentage p just constructed;
\* args is <<p, the number of reparses since the client's value>>
CallPercentageReparse ==
    /\ op \in {"Percentage", "PercentageReparse"}
    /\ Ok(ret)
    /\ op' = "PercentageReparse"
    /\ args' = <<ret.val, IF op = "Percentage" THEN 1 ELSE 2>>
    /\ ret' = PercentageNew(Str(PercentageFormattedString(ret.val)))
    /\ UNCHANGED calcs
    /\ UNCHANGED updates

\* Currency(value)
CallCurrency ==
    \E value \in Values :
        /\ op = "none"
        /\ op' = "Currency"
        /\ args' = <<value>>
        /\ ret' = CurrencyNew(value)
        /\ UNCHANGED calcs
    /\ UNCHANGED updates

\* Currency(c.formatted_string()) for the Currency c just constructed
CallCurrencyReparse ==
    /\ op \in {"Currency", "calculate"}
    /\ Ok(ret)
    /\ op' = "CurrencyReparse"
    /\ args' = <<ret.val>>
    /\ ret' = CurrencyNew(Str(CurrencyFormattedString(ret.val)))
    /\ UNCHANGED calcs
    /\ UNCHANGED updates

\* calculate(*a)
CallCalculate ==
    \E a \in CalculateArgs :
        /\ op = "none"
        /\ op' = "calculate"
        /\ args' = a
        /\ ret' = calculateCall(a)
        /\ UNCHANGED calcs
    /\ UNCHANGED updates

NextTypes ==
    \/ CallPercentage
    \/ CallPercentageReparse
    \/ CallCurrency
    \/ CallCurrencyReparse
    \/ CallCalculate

SpecTypes == InitTypes /\ [][NextTypes]_vars

---------------------------------------------------------------------------
(* A session with BaseCalculator objects: calculators are constructed,     *)
(* later ones possibly over earlier ones, their ignore_margins attribute   *)
(* is assigned, and subtotal, ctx and total are called.  The client makes  *)
(* one call at a time: op is "none" between calls, and the state after a   *)
(* call holds the call and its outcome until the client goes on.           *)

Text123 == Str(<<"1", "2", "3">>)
EmptyList == List(<<>>)

\* the <<costs, margins, discounts, deductions>> a calculator is built from
ConstructorArgs ==
    {<<List(<<Text123, Str(<<"4", "5", "6">>)>>), Str(<<"5", "0">>),
       Str(<<"1", "0">>), Str(<<"1", "0", "0">>)>>,
     <<Str(<<"1", "0", "0">>), List(<<Str(<<"7", "5">>), Str(<<"5", "0">>)>>),
       EmptyList, EmptyList>>,
     <<List(<<Str(<<"-", "2", "0">>), List(<<Dec(RInt(5))>>)>>), EmptyList,
       List(<<Str(<<".", "7", "5">>), Str(<<".", "5">>)>>),
       List(<<Str(<<"2", "0">>), Str(<<"-", "3", "0">>)>>)>>,
     <<EmptyList, EmptyList, EmptyList, EmptyList>>}

\* the costs as given, or '123' and an earlier calculator
CostsOver(costs, h) ==
    {costs} \cup {List(<<Text123, CalcRef(j)>>) : j \in DOMAIN h}

Flags == {"None", "True", "False"}

Idle ==
    /\ op = "none"
    /\ args = <<>>
    /\ ret = Return(None)

Init ==
    /\ calcs = NoCalcs
    /\ Idle
    /\ updates = 0

\* BaseCalculator(costs, margins, discounts, deductions, ignore_margins)
Construct ==
    /\ op = "none"
    /\ Len(calcs) < MaxCalcs
    /\ \E a \in ConstructorArgs, flag \in Flags :
         \E costs \in CostsOver(a[1], calcs) :
            calcs' = Append(calcs,
                            BaseCalculatorInit(costs, a[2], a[3], a[4], flag))
    /\ UNCHANGED <<op, args, ret>>
    /\ UNCHANGED updates

\* calc.ignore_margins = flag
SetIgnoreMargins ==
    /\ op = "none"
    /\ \E i \in DOMAIN calcs, flag \in {"True", "False"} :
         calcs' = [calcs EXCEPT ![i].ignore_margins = flag]
    /\ UNCHANGED <<op, args, ret>>
    /\ UNCHANGED updates

\* calc.subtotal(ignore_margins)
CallSubtotal ==
    /\ op = "none"
    /\ \E i \in DOMAIN calcs, flag \in {"False", "True"} :
        /\ op' = "subtotal"
        /\ args' = <<i, flag>>
        /\ ret' = subtotal(calcs, i, flag)
    /\ UNCHANGED calcs
    /\ UNCHANGED updates

\* calc.ctx(ignore_margins)
CallCtx ==
    /\ op = "none"
    /\ \E i \in DOMAIN calcs, flag \in {"False", "True"} :
        /\ op' = "ctx"
        /\ args' = <<i, flag>>
        /\ ret' = ctx(calcs, i, flag)
    /\ UNCHANGED calcs
    /\ UNCHANGED updates

\* calc.total()
CallTotal ==
    /\ op = "none"
    /\ \E i \in DOMAIN calcs :
        /\ op' = "total"
        /\ args' = <<i>>
        /\ ret' = total(calcs, i)
    /\ UNCHANGED calcs
    /\ UNCHANGED updates

\* the client has taken the outcome of its call and goes on
Resume ==
    /\ op # "none"
    /\ op' = "none"
    /\ args' = <<>>
    /\ ret' = Return(None)
    /\ UNCHANGED calcs
    /\ UNCHANGED updates

Next ==
    \/ Construct
    \/ SetIgnoreMargins
    \/ CallSubtotal
    \/ CallCtx
    \/ CallTotal
    \/ Resume

Spec == Init /\ [][Next]_vars

---------------------------------------------------------------------------
(* A session with one Calculator: it is constructed, its rate is assigned, *)
(* update is called, and subtotal, ctx, total and render are called.  The  *)
(* state after an assignment or an update holds, as the last of args, the  *)
(* calculator as it was before.                                            *)

\* most update calls of a session
MaxUpdates == 1

Text10 == Str(<<"1", "0">>)
Text20 == Str(<<"2", "0">>)
Text30 == Str(<<"3", "0">>)
Pair2010 == Tuple(<<Text20, Text10>>)
FormulaOfTotal == FormulaFormatter(<<"T">>, "total")
FormulaOfSubtotal == FormulaFormatter(<<"S", "U", "B">>, "subtotal")

\* Calculator(costs=['123', '456'], margins='50', discounts='10',
\*            deductions='100', hours='10', rate='20',
\*            formatters=BasicFormatter), the calculator of the tests
TestKwargs ==
    [NoKwargs EXCEPT !.costs = List(<<Text123, Str(<<"4", "5", "6">>)>>),
                     !.margins = Str(<<"5", "0">>),
                     !.discounts = Text10,
                     !.deductions = Str(<<"1", "0", "0">>),
                     !.hours = Text10,
                     !.rate = Text20,
                     !.formatters = BasicFormatter]

\* the keyword arguments a Calculator is constructed with
CalculatorKwargs ==
    {TestKwargs,
     NoKwargs,
     [NoKwargs EXCEPT !.costs = Str(<<"1", "0", "0">>),
                      !.hours = Str(<<"-", "1", "0">>),
                      !.rate = Text20,
                      !.ignore_margins = "True"],
     [NoKwargs EXCEPT !.hours = List(<<Text10, List(<<Dec(RInt(5))>>)>>),
                      !.margins = Text10,
                      !.config = ConfigInit(Text30, Str(<<"2">>)),
                      !.formatters = List(<<FormulaOfSubtotal,
                                            List(<<BasicFormatter>>)>>)]}

\* the values assigned to rate
RateValues ==
    {Text30, Dec(RZero), Str(<<"-", "1">>), Dec(RInt(-5)), Str(<<"x">>),
     None, Pair2010}

\* the keywords update is called with
UpdateKwargs ==
    {<<"costs", Str(<<"5">>)>>, <<"margins", Str(<<"2", ".", "5">>)>>,
     <<"discounts", Str(<<"5">>)>>, <<"deductions", Str(<<"2", "0", "0">>)>>,
     <<"hours", Pair2010>>, <<"formatters", FormulaOfTotal>>,
     <<"formatters", Obj>>,
     <<"rate", Text30>>, <<"rate", Str(<<"-", "1">>)>>, <<"rate", None>>,
     <<"rate", Pair2010>>,
     <<"ignore_margins", Bool(TRUE)>>, <<"ignore_margins", Bool(FALSE)>>,
     <<"someattr", Str(<<"v">>)>>, <<"divider", Str(<<"/">>)>>,
     <<"prompt", Bool(TRUE)>>}

\* the separators render is called with, the first its default
Separators == {<<"\n", "\n">>, <<",", " ">>}

\* Calculator(**kw), or CustomCalc(someattr='a', **kw)
ConstructCalculator ==
    /\ op = "none"
    /\ calcs = NoCalcs
    /\ \E kw \in CalculatorKwargs, custom \in BOOLEAN :
         calcs' = <<(IF custom THEN CustomCalcInit(kw, Str(<<"a">>))
                     ELSE CalculatorInit(kw)).val>>
    /\ UNCHANGED <<op, args, ret, updates>>

\* calc.rate = value
AssignRate ==
    /\ op = "none"
    /\ calcs # NoCalcs
    /\ \E value \in RateValues :
        /\ op' = "rate="
        /\ args' = <<value, calcs[1]>>
        /\ ret' = IF Ok(RateSetter(calcs[1], value)) THEN Return(None)
                  ELSE RateSetter(calcs[1], value)
        /\ calcs' = IF Ok(RateSetter(calcs[1], value))
                    THEN <<RateSetter(calcs[1], value).val>>
                    ELSE calcs
    /\ UNCHANGED updates

\* calc.update(append=append, key=value)
CallUpdate ==
    /\ op = "none"
    /\ calcs # NoCalcs
    /\ updates < MaxUpdates
    /\ \E append \in BOOLEAN, kwarg \in UpdateKwargs :
        /\ op' = "update"
        /\ args' = <<append, kwarg[1], kwarg[2], calcs[1]>>
        /\ ret' = IF Ok(update(calcs[1], append, <<kwarg>>)) THEN Return(None)
                  ELSE Raise(update(calcs[1], append, <<kwarg>>).exc)
        /\ calcs' = <<update(calcs[1], append, <<kwarg>>).val>>
    /\ updates' = updates + 1

\* calc.subtotal()
CallCalculatorSubtotal ==
    /\ op = "none"
    /\ calcs # NoCalcs
    /\ op' = "subtotal"
    /\ args' = <<>>
    /\ ret' = CalculatorSubtotal(calcs[1], "False")
    /\ UNCHANGED <<calcs, updates>>

\* calc.ctx(strict)
CallCalculatorCtx ==
    /\ op = "none"
    /\ calcs # NoCalcs
    /\ \E strict \in BOOLEAN :
        /\ op' = "ctx"
        /\ args' = <<strict>>
        /\ ret' = CalculatorCtx(calcs[1], strict)
    /\ UNCHANGED <<calcs, updates>>

\* calc.total()
CallCalculatorTotal ==
    /\ op = "none"
    /\ calcs # NoCalcs
    /\ op' = "total"
    /\ args' = <<>>
    /\ ret' = CalculatorTotal(calcs[1])
    /\ UNCHANGED <<calcs, updates>>

\* calc.render(separator)
CallRender ==
    /\ op = "none"
    /\ calcs # NoCalcs
    /\ \E separator \in Separators :
        /\ op' = "render"
        /\ args' = <<separator>>
        /\ ret' = render(calcs[1], separator)
    /\ calcs' = <<RenderFormattersOf(calcs[1]).self>>
    /\ UNCHANGED updates

NextCalc ==
    \/ ConstructCalculator
    \/ AssignRate
    \/ CallUpdate
    \/ CallCalculatorSubtotal
    \/ CallCalculatorCtx
    \/ CallCalculatorTotal
    \/ CallRender
    \/ Resume

SpecCalc == Init /\ [][NextCalc]_vars

---------------------------------------------------------------------------
(* The helpers of jobcalc/utils.py as called by a client: flatten on      *)
(* nested lists and tuples, parse_input_string and dict_from_env_string   *)
(* on texts joined from tokens.  The state after a call on a text holds,  *)
(* as the last of args, the tokens the text was joined from.              *)

\* most elements of a list or tuple given to flatten
MaxWidth == 2

\* most tokens of a text given to parse_input_string or dict_from_env_string
MaxTokens == 3

\* every sequence of at most n elements of S
SeqsOver(S, n) == UNION {[1..k -> S] : k \in 0..n}

\* the lists and tuples of at most MaxWidth elements of S
Containers(S) ==
    {List(items) : items \in SeqsOver(S, MaxWidth)}
        \cup {Tuple(items) : items \in SeqsOver(S, MaxWidth)}

\* the values that are neither list nor tuple: a text and a number
FlattenLeaves == {Str(<<"1">>), Dec(RInt(3))}

Nested1 == FlattenLeaves \cup Containers(FlattenLeaves)
Nested2 == FlattenLeaves \cup Containers(Nested1)

\* ['1', '2', [3, ['4'], ['5 is alive', 6], 7], [8, '9.0']]
FlattenExample ==
    List(<<Str(<<"1">>), Str(<<"2">>),
           List(<<Dec(RInt(3)), List(<<Str(<<"4">>)>>),
                  List(<<Str(<<"5", " ", "i", "s", " ", "a", "l", "i", "v",
                                "e">>),
                         Dec(RInt(6))>>),
                  Dec(RInt(7))>>),
           List(<<Dec(RInt(8)), Str(<<"9", ".", "0">>)>>)>>)

\* what flatten is called on, and the ignoretypes it is called with, the
\* first its default
FlattenArgs == Nested2 \cup {FlattenExample, Dec(ROne)}
IgnoreTypes == {DefaultIgnoretypes, {"tuple"}, {"str", "tuple"}, {"list"}}

\* the tokens of the texts that parse_input_string is called on
InputTokens == {<<"1", "2">>, <<" ", "3">>, <<" ">>, <<>>}

\* the separators of parse_input_string, the first its default
InputSeparators == {<<";">>, <<",">>}

\* the values of convert and of type: none, float, Currency
Converters == {None, Callable("float"), Callable("Currency")}

\* the values of type: also a text, which is not callable
Types == Converters \cup {Str(<<"n", "o">>)}

Key1 == <<"k", "e", "y", "1">>
Key2 == <<"k", "e", "y", "2">>

\* the tokens of the texts that dict_from_env_string is called on, each
\* the parts that the divider stands between: a key and a value, a key
\* alone, nothing, and three parts
EnvTokens ==
    {<<Key1, <<"1", ".", "0">> >>, <<Key2, <<"2">> >>, <<Key1, <<"x">> >>,
     <<Key2>>, <<>>, <<Key1, <<"1">>, <<"2">> >>}

\* the values of seperator and divider: the default, another character
\* and the empty text
EnvSeparators == {None, Str(<<"/">>), Str(<<>>)}
EnvDividers == {None, Str(<<"=">>), Str(<<>>)}

\* the character that stands between the parts of the text: the one given
\* or, for None and '', the default
Between(value, default) ==
    IF Truthy(value) THEN PyStr(value) ELSE default

\* the text of the tokens, their parts joined by the divider and the
\* tokens by the separator
EnvString(tokens, seperator, divider) ==
    Str(Join(Between(seperator, <<";">>),
             [k \in DOMAIN tokens |->
                 Join(Between(divider, <<":">>), tokens[k])]))

\* what dict_from_env_string is called on that is no text of tokens
EnvOthers == {None, Str(<<>>), Dict([k \in {<<"s", "o", "m", "e">>} |->
                                        Str(<<"d", "i", "c", "t">>)])}

\* list(flatten(value, ignoretypes=ignoretypes))
CallFlatten ==
    /\ op = "none"
    /\ \E value \in FlattenArgs, ignoretypes \in IgnoreTypes :
        /\ op' = "flatten"
        /\ args' = <<value, ignoretypes>>
        /\ ret' = flattenIgnoring(<<value>>, ignoretypes)
    /\ UNCHANGED <<calcs, updates>>

\* parse_input_string(string, seperator=seperator, convert=convert)
CallParseInputString ==
    /\ op = "none"
    /\ \E tokens \in SeqsOver(InputTokens, MaxTokens) \ {<<>>},
          seperator \in InputSeparators, convert \in Converters :
        /\ op' = "parse_input_string"
        /\ args' = <<Str(Join(seperator, tokens)), seperator, convert, tokens>>
        /\ ret' = parse_input_string(Str(Join(seperator, tokens)), seperator,
                                     convert)
    /\ UNCHANGED <<calcs, updates>>

\* dict_from_env_string(string, seperator=seperator, divider=divider,
\*                      type=type) on a text of tokens
CallDictFromEnvString ==
    /\ op = "none"
    /\ \E tokens \in SeqsOver(EnvTokens, MaxTokens) \ {<<>>},
          seperator \in EnvSeparators, divider \in EnvDividers,
          type \in Types :
        /\ op' = "dict_from_env_string"
        /\ args' = <<EnvString(tokens, seperator, divider), seperator,
                     divider, type, tokens>>
        /\ ret' = dict_from_env_string(
                      EnvString(tokens, seperator, divider), seperator,
                      divider, type)
    /\ UNCHANGED <<calcs, updates>>

\* dict_from_env_string(string, type=type) on None, '' and a dict
CallDictFromEnvOther ==
    /\ op = "none"
    /\ \E string \in EnvOthers, type \in Types :
        /\ op' = "dict_from_env_string"
        /\ args' = <<string, None, None, type, <<>> >>
        /\ ret' = dict_from_env_string(string, None, None, type)
    /\ UNCHANGED <<calcs, updates>>

\* the characters of the texts that bool_from_env_string is called on
BoolAlphabet == {"0", "1", "+", "-", " ", "t"}

\* what bool_from_env_string is called on: the texts of its docstring and
\* tests, every text of at most MaxStrLen characters, and values that are
\* no text
BoolArgs ==
    {Str(<<"t", "r", "u", "e">>), Str(<<"T", "R", "U", "E">>),
     Str(<<"T", "r", "U", "e">>), Str(<<"f", "a", "l", "s", "e">>),
     Str(<<"F", "A", "L", "S", "E">>), Str(<<"y", "e", "s">>)}
        \cup {Str(text) :
                text \in UNION {[1..n -> BoolAlphabet] : n \in 0..MaxStrLen}}
        \cup {None, Obj, Bool(TRUE), Bool(FALSE), Dec(ROne), Dec(RInt(2))}

\* bool_from_env_string(string)
CallBoolFromEnvString ==
    /\ op = "none"
    /\ \E string \in BoolArgs :
        /\ op' = "bool_from_env_string"
        /\ args' = <<string>>
        /\ ret' = Return(Bool(bool_from_env_string(string)))
    /\ UNCHANGED <<calcs, updates>>

NextUtils ==
    \/ CallFlatten
    \/ CallParseInputString
    \/ CallDictFromEnvString
    \/ CallDictFromEnvOther
    \/ CallBoolFromEnvString
    \/ Resume

SpecUtils == Init /\ [][NextUtils]_vars

---------------------------------------------------------------------------
(* Calculators nested in calculators: a chain in which every calculator
   after the first holds the one before it among its costs, the first
   being a BaseCalculator or a Calculator with hours and a rate.  A call
   is made on the outermost calculator, render on the innermost; the last
   element of args holds the calculators as they were before the call.  *)

\* the longest chain of calculators
MaxDepth == 3

\* the <<margins, discounts, deductions, ignore_margins>> of a calculator
\* of the chain: no margins, the ones of the tests, or ones that do not
\* convert
TreeRests ==
    {<<EmptyList, EmptyList, EmptyList, "None">>,
     <<Str(<<"5", "0">>), Str(<<"1", "0">>), Str(<<"1", "0", "0">>),
       "None">>,
     <<Str(<<"5", "0">>), Str(<<"1", "0">>), Str(<<"1", "0", "0">>),
       "True">>,
     <<Str(<<"5", "0">>), Str(<<"1", "0">>), Str(<<"1", "0", "0">>),
       "False">>,
     <<Str(<<"x">>), Str(<<"2", "0", "0">>), Obj, "True">>,
     <<Str(<<"x">>), Str(<<"2", "0", "0">>), Obj, "False">>}

\* obj.subtotal(ignore_margins) by the class of obj = h[i]
SubtotalOfObject(h, i, ignore_margins) ==
    IF IsCalculator(h[i]) THEN CalculatorSubtotal(h[i], ignore_margins)
    ELSE subtotal(h, i, ignore_margins)

\* obj.total() by the class of obj = h[i]
TotalOfObject(h, i) ==
    IF IsCalculator(h[i]) THEN CalculatorTotal(h[i]) ELSE total(h, i)

\* BaseCalculator('123', ...) or Calculator(costs='123', hours='10',
\* rate='20', ...) as the innermost calculator, BaseCalculator(['123',
\* calc], ...) around the calculator built last
ConstructNested ==
    /\ op = "none"
    /\ Len(calcs) < MaxDepth
    /\ \E r \in TreeRests :
         \/ /\ calcs = <<>>
            /\ calcs' = <<BaseCalculatorInit(Text123, r[1], r[2], r[3],
                                             r[4])>>
         \/ /\ calcs = <<>>
            /\ calcs' = <<CalculatorInit(
                            [NoKwargs EXCEPT !.costs = Text123,
                                             !.margins = r[1],
                                             !.discounts = r[2],
                                             !.deductions = r[3],
                                             !.ignore_margins = r[4],
                                             !.hours = Str(<<"1", "0">>),
                                             !.rate = Str(<<"2", "0">>)]
                          ).val>>
         \/ /\ calcs # <<>>
            /\ calcs' = Append(calcs,
                               BaseCalculatorInit(
                                   List(<<Text123, CalcRef(Len(calcs))>>),
                                   r[1], r[2], r[3], r[4]))
    /\ UNCHANGED <<op, args, ret>>
    /\ UNCHANGED updates

\* calc.subtotal(ignore_margins) on the outermost calculator
CallNestedSubtotal ==
    /\ op = "none"
    /\ calcs # <<>>
    /\ \E flag \in {"False", "True"} :
        /\ op' = "subtotal"
        /\ args' = <<Len(calcs), flag, calcs>>
        /\ ret' = SubtotalOfObject(calcs, Len(calcs), flag)
    /\ UNCHANGED calcs
    /\ UNCHANGED updates

\* calc.total() on the outermost calculator
CallNestedTotal ==
    /\ op = "none"
    /\ calcs # <<>>
    /\ op' = "total"
    /\ args' = <<Len(calcs), calcs>>
    /\ ret' = TotalOfObject(calcs, Len(calcs))
    /\ UNCHANGED calcs
    /\ UNCHANGED updates

\* calc.ctx() on the outermost calculator
CallNestedCtx ==
    /\ op = "none"
    /\ calcs # <<>>
    /\ op' = "ctx"
    /\ args' = <<Len(calcs), calcs>>
    /\ ret' = IF IsCalculator(calcs[Len(calcs)])
              THEN CalculatorCtx(calcs[Len(calcs)], FALSE)
              ELSE ctx(calcs, Len(calcs), "False")
    /\ UNCHANGED calcs
    /\ UNCHANGED updates

\* calc.render() on the innermost calculator, a Calculator
CallNestedRender ==
    /\ op = "none"
    /\ calcs # <<>>
    /\ IsCalculator(calcs[1])
    /\ op' = "render"
    /\ args' = <<1, calcs>>
    /\ ret' = render(calcs[1], <<"\n", "\n">>)
    /\ calcs' = [calcs EXCEPT ![1] = RenderFormattersOf(calcs[1]).self]
    /\ UNCHANGED updates

NextTree ==
    \/ ConstructNested
    \/ CallNestedSubtotal
    \/ CallNestedCtx
    \/ CallNestedTotal
    \/ CallNestedRender
    \/ Resume

SpecTree == Init /\ [][NextTree]_vars

---------------------------------------------------------------------------
(* An entry that does not convert, added to a collection of a
   BaseCalculator and taken away again, as in
   test_things_fail_with_invalid_items: total(), the entry appended,
   total(), the entry removed, total().  While the client goes through
   these steps, args holds <<field, entry, outcome of the first total()>>.
   *)

\* the fields an entry is appended to
EntryFields == {"costs", "margins", "discounts", "deductions"}

\* entries that are no number
InvalidEntries ==
    {Obj, Str(<<"x">>), None, List(<<Str(<<"1">>), Tuple(<<Obj>>)>>)}

\* the <<costs, margins, discounts, deductions>> of the calculator
InvalidArgs ==
    ConstructorArgs
        \cup {<<Str(<<"1", "0", "0">>), Str(<<"2", "0", "0">>), EmptyList,
                EmptyList>>,
              <<Str(<<"1", "0", "0">>), EmptyList, Str(<<"-", "5">>),
                Str(<<"2", "0">>)>>}

\* calc = BaseCalculator(costs, margins, discounts, deductions)
ConstructOne ==
    /\ op = "none"
    /\ calcs = NoCalcs
    /\ \E a \in InvalidArgs :
         calcs' = <<BaseCalculatorInit(a[1], a[2], a[3], a[4], "None")>>
    /\ UNCHANGED <<op, args, ret>>
    /\ UNCHANGED updates

\* calc.total(), before any entry is added
CallFirstTotal ==
    /\ op = "none"
    /\ calcs # NoCalcs
    /\ op' = "total"
    /\ args' = <<1>>
    /\ ret' = total(calcs, 1)
    /\ UNCHANGED calcs
    /\ UNCHANGED updates

\* calc.<field>.append(entry)
AppendEntry ==
    /\ op = "total"
    /\ \E field \in EntryFields, entry \in InvalidEntries :
        /\ calcs' = [calcs EXCEPT ![1][field] = Append(@, entry)]
        /\ args' = <<field, entry, ret>>
    /\ op' = "append"
    /\ ret' = Return(None)
    /\ UNCHANGED updates

\* calc.total(), with the entry in place
CallTotalWithEntry ==
    /\ op = "append"
    /\ op' = "total_with_entry"
    /\ ret' = total(calcs, 1)
    /\ UNCHANGED <<calcs, args>>
    /\ UNCHANGED updates

\* calc.<field> = calc.<field>[:-1]
RemoveEntry ==
    /\ op = "total_with_entry"
    /\ calcs' = [calcs EXCEPT ![1][args[1]] = SubSeq(@, 1, Len(@) - 1)]
    /\ op' = "remove"
    /\ ret' = Return(None)
    /\ UNCHANGED args
    /\ UNCHANGED updates

\* calc.total(), the entry taken away
CallTotalAgain ==
    /\ op = "remove"
    /\ op' = "total_again"
    /\ ret' = total(calcs, 1)
    /\ UNCHANGED <<calcs, args>>
    /\ UNCHANGED updates

\* the client starts over
ResumeAfterTotal ==
    /\ op \in {"total", "total_again"}
    /\ op' = "none"
    /\ args' = <<>>
    /\ ret' = Return(None)
    /\ UNCHANGED calcs
    /\ UNCHANGED updates

NextInvalid ==
    \/ ConstructOne
    \/ CallFirstTotal
    \/ AppendEntry
    \/ CallTotalWithEntry
    \/ RemoveEntry
    \/ CallTotalAgain
    \/ ResumeAfterTotal

SpecInvalid == Init /\ [][NextInvalid]_vars

---------------------------------------------------------------------------
(* Calculator.render over formatters that render, formatters without a
   render method and a TerminalFormatter without colors, on calculators
   whose total() succeeds or fails.  *)

\* the most formatters a calculator is given
MaxFormatters == 2

\* the formatters given, object() having no render method
RenderFormatters ==
    {BasicFormatter, FormulaOfTotal, Obj, TerminalFormatterNoColors}

\* the lists of formatters given
FormatterLists ==
    UNION {[1..n -> RenderFormatters] : n \in 0..MaxFormatters}

\* the keyword arguments besides formatters: the ones of the tests, none,
\* and costs and margins that make total() fail
RenderKwargs ==
    {TestKwargs, NoKwargs,
     [NoKwargs EXCEPT !.costs = Str(<<"x">>)],
     [NoKwargs EXCEPT !.costs = Text123, !.margins = Str(<<"2", "0", "0">>)]}

\* calc = Calculator(formatters=[...], **kw)
ConstructWithFormatters ==
    /\ op = "none"
    /\ calcs = NoCalcs
    /\ \E kw \in RenderKwargs, formatters \in FormatterLists :
         calcs' = <<CalculatorInit(
                      [kw EXCEPT !.formatters = List(formatters)]).val>>
    /\ UNCHANGED <<op, args, ret, updates>>

NextRender ==
    \/ ConstructWithFormatters
    \/ CallRender
    \/ Resume

SpecRender == Init /\ [][NextRender]_vars

---------------------------------------------------------------------------
(* jobcalc/core.py: TerminalCalculator.  The texts the user types are
   what click.prompt returns, the default '0' for an empty line; no
   JOBCALC_* variable is set.  The colors of the messages are left out.  *)

IndexError == "IndexError"

\* TerminalConfig(rate=hourly, default_hours=default_hours,
\* prompt_seperator=prompt_seperator)
TerminalConfigInit(hourly, default_hours, prompt_seperator) ==
    ConfigInit(hourly, default_hours)
        @@ [prompt |-> Bool(FALSE),
            prompt_seperator |-> StrOrDefault(prompt_seperator, <<" ">>),
            allow_empty |-> Bool(FALSE),
            suppress |-> Bool(FALSE),
            formula |-> Bool(FALSE)]

\* TerminalCalculator(**kw): the config is a TerminalConfig() unless one is
\* given
TerminalCalculatorInit(kw) ==
    CalculatorInit([kw EXCEPT !.config =
                       IF @ = None THEN TerminalConfigInit(None, None, None)
                       ELSE @])

\* TerminalCalculator._prompts
Prompts == <<"margin", "discount", "hours", "rate", "deduction", "cost">>

\* the text of each prompt key
PromptText ==
    [margin |-> <<"m", "a", "r", "g", "i", "n">>,
     discount |-> <<"d", "i", "s", "c", "o", "u", "n", "t">>,
     hours |-> <<"h", "o", "u", "r", "s">>,
     rate |-> <<"r", "a", "t", "e">>,
     deduction |-> <<"d", "e", "d", "u", "c", "t", "i", "o", "n">>,
     cost |-> <<"c", "o", "s", "t">>]

\* the texts of TerminalCalculator._prompts
PromptTexts == {PromptText[p] : p \in DOMAIN PromptText}

\* key_for_prompt were it to take no plural
WithoutPluralKept(prompt) == prompt

\* prompt without its last 's' when it is no prompt key and ends with 's'
WithoutPlural(prompt) ==
    IF prompt \notin PromptTexts /\ prompt # <<>>
       /\ prompt[Len(prompt)] = "s"
    THEN SubSeq(prompt, 1, Len(prompt) - 1)
    ELSE prompt

\* key_for_prompt from the check against _prompts on
key_for_promptOf(prompt) ==
    IF prompt \notin PromptTexts THEN Raise("AttributeError")
    ELSE IF prompt = PromptText.rate \/ prompt = PromptText.hours
         THEN Return(Str(prompt))
    ELSE Return(Str(prompt \o <<"s">>))

\* TerminalCalculator.key_for_prompt(prompt)
key_for_prompt(prompt) == key_for_promptOf(WithoutPlural(PyStr(prompt)))

\* the attribute, the type and is_single that prompt_for_<prompt> hands to
\* _prompt_for
PromptFunctions ==
    [margin |-> <<"margins", "MARGIN", FALSE>>,
     discount |-> <<"discounts", "DISCOUNT", FALSE>>,
     hours |-> <<"hours", "Decimal", FALSE>>,
     rate |-> <<"rate", "Decimal", TRUE>>,
     deduction |-> <<"deductions", "DEDUCTION", FALSE>>,
     cost |-> <<"costs", "COSTS", FALSE>>]

\* the keyword of update that a text returned by key_for_prompt spells
AttributeNamed(text) ==
    CHOOSE attr \in {PromptFunctions[p][1] : p \in DOMAIN PromptFunctions} :
        \E p \in DOMAIN PromptFunctions :
            /\ PromptFunctions[p][1] = attr
            /\ text \in {PromptText[p], PromptText[p] \o <<"s">>}

\* _prompt_for from the parsed input on: for a single value the first one
PromptResponseOf(rv, is_single) ==
    IF ~Ok(rv) THEN rv
    ELSE IF ~is_single THEN rv
    ELSE IF rv.val.items = <<>> THEN Raise(IndexError)
    ELSE Return(rv.val.items[1])

\* TerminalCalculator._prompt_for(attr, type=type, is_single=is_single)
\* when the user types text: the value of the PromptResponse
PromptFor(self, attr, type, is_single, text) ==
    IF getattrOfCalculator(self, attr) = None THEN Raise("AttributeError")
    ELSE PromptResponseOf(
             parse_input_string(Str(text), self.config.prompt_seperator.s,
                                Callable(type)),
             is_single)

\* with self.prompt_for(prompt) as result, for a prompt of _prompts:
\* result.value
prompt_for(self, prompt, text) ==
    PromptFor(self, PromptFunctions[prompt][1], PromptFunctions[prompt][2],
              PromptFunctions[prompt][3], text)

\* Calculator._costs(): the costs summed as plain decimals
Costs(self) == SumOutcomes(Decimals(flatten(self.costs)))

\* the hours that prompt_for_empty looks at: the default hours of the
\* config taken off when they are above 0
HoursWithoutDefault(default_hours, hours) ==
    IF ~Ok(default_hours) THEN default_hours
    ELSE IF ~Ok(hours) THEN hours
    ELSE IF default_hours.val > 0
         THEN Return(RSub(hours.val, RInt(default_hours.val)))
    ELSE hours

\* the value prompt_for_empty compares with 0 for prompt, c the Context
PromptValue(self, c, prompt) ==
    CASE prompt = "hours" ->
            HoursWithoutDefault(IntOf(self.config.default_hours), Hours(self))
      [] prompt = "rate" -> Return(rate(self))
      [] prompt = "cost" -> Costs(self)
      [] OTHER -> Return(c[prompt])

\* the end of prompt_for_empty: self.update(**updates), and with
\* config.debug a further ctx() for the log
PromptForEmptyEnd(updated) ==
    IF ~Ok(updated) THEN updated
    ELSE IF updated.val.config.debug = Bool(TRUE)
            /\ ~Ok(CalculatorCtx(updated.val, FALSE))
         THEN Failed(CalculatorCtx(updated.val, FALSE).exc, updated.val)
    ELSE updated

---------------------------------------------------------------------------
(* A TerminalCalculator and its user.  While prompt_for_empty runs, op is
   "prompting" and args holds its locals <<strict, ctx, the index of the
   next prompt, the <<prompt, text typed>> so far, updates, the calculator
   as it was at the call>>; when it has returned or raised, op is
   "prompt_for_empty" and args is as the call left it.  *)

Text5 == <<"5">>

\* the most calls of prompt_for_empty that reach their update
MaxPromptCalls == 1

\* the keyword arguments of the TerminalCalculator
TerminalKwargs ==
    {NoKwargs,
     TestKwargs,
     [TestKwargs EXCEPT !.costs = List(<<Str(Text5), Str(<<"-", "5">>)>>)],
     [TestKwargs EXCEPT !.costs = Str(<<"$", "5">>),
                        !.deductions = EmptyList],
     [NoKwargs EXCEPT !.costs = Str(<<"1", "0", "0">>),
                      !.rate = Str(<<"2", "0">>),
                      !.config = TerminalConfigInit(None, Str(<<"2">>),
                                                    None)],
     [NoKwargs EXCEPT !.costs = Str(<<"1", "0", "0">>),
                      !.hours = Str(<<"1", "0">>)]}

\* what the user types at a prompt
UserTexts ==
    {<<"0">>, Text5, <<"1", "0", " ", "2", "0">>, <<"x">>}

\* the keys key_for_prompt is called with
KeyArgs ==
    {Str(PromptText[p]) : p \in DOMAIN PromptText}
        \cup {Str(PromptText[p] \o <<"s">>) : p \in DOMAIN PromptText}
        \cup {Str(PromptText[p] \o <<"s", "s">>) : p \in DOMAIN PromptText}
        \cup {Str(SubSeq(PromptText[p], 1, Len(PromptText[p]) - 1)) :
                 p \in DOMAIN PromptText}
        \cup {Str(<<"i", "n", "v", "a", "l", "i", "d">>), Str(<<>>),
              Str(<<"s">>), Str(<<"M", "a", "r", "g", "i", "n">>),
              Str(<<"r", "a", "t", "e", " ">>), None, Obj}

\* calc = TerminalCalculator(**kw)
ConstructTerminal ==
    /\ op = "none"
    /\ calcs = NoCalcs
    /\ \E kw \in TerminalKwargs :
         calcs' = <<TerminalCalculatorInit(kw).val>>
    /\ UNCHANGED <<op, args, ret, updates>>

\* calc.key_for_prompt(prompt)
CallKeyForPrompt ==
    /\ op = "none"
    /\ calcs # NoCalcs
    /\ \E prompt \in KeyArgs :
        /\ op' = "key_for_prompt"
        /\ args' = <<prompt>>
        /\ ret' = key_for_prompt(prompt)
    /\ UNCHANGED <<calcs, updates>>

\* calc.prompt_for_empty(strict) up to the loop: the Context is taken
CallPromptForEmpty ==
    /\ op = "none"
    /\ calcs # NoCalcs
    /\ updates < MaxPromptCalls
    /\ \E strict \in BOOLEAN :
         IF Ok(CalculatorCtx(calcs[1], strict))
         THEN /\ op' = "prompting"
              /\ args' = <<strict, CalculatorCtx(calcs[1], strict).val, 1,
                           <<>>, <<>>, calcs[1]>>
              /\ ret' = Return(None)
         ELSE /\ op' = "prompt_for_empty"
              /\ args' = <<strict, None, 1, <<>>, <<>>, calcs[1]>>
              /\ ret' = CalculatorCtx(calcs[1], strict)
    /\ UNCHANGED <<calcs, updates>>

\* the prompt the loop is at
PromptAt == Prompts[args[3]]

\* the value the loop compares with 0
ValueAt == PromptValue(calcs[1], args[2], PromptAt)

\* a round of the loop whose value cannot be taken: the call raises
FailKey ==
    /\ op = "prompting"
    /\ args[3] <= Len(Prompts)
    /\ ~Ok(ValueAt)
    /\ op' = "prompt_for_empty"
    /\ ret' = ValueAt
    /\ UNCHANGED <<calcs, args, updates>>

\* a round of the loop for a value that is not 0
SkipKey ==
    /\ op = "prompting"
    /\ args[3] <= Len(Prompts)
    /\ Ok(ValueAt)
    /\ ValueAt.val # RZero
    /\ args' = [args EXCEPT ![3] = @ + 1]
    /\ UNCHANGED <<calcs, op, ret, updates>>

\* a round of the loop for a value that is 0: the user is asked and the
\* value goes into updates under key_for_prompt(prompt), or the call
\* raises what the conversion of the text raised
PromptKey ==
    /\ op = "prompting"
    /\ args[3] <= Len(Prompts)
    /\ Ok(ValueAt)
    /\ ValueAt.val = RZero
    /\ \E text \in UserTexts :
         IF Ok(prompt_for(calcs[1], PromptAt, text))
         THEN /\ args' = [args EXCEPT
                            ![3] = @ + 1,
                            ![4] = Append(@, <<PromptAt, text>>),
                            ![5] = Append(@,
                                     <<AttributeNamed(
                                          key_for_prompt(
                                            Str(PromptText[PromptAt])).val.s),
                                       prompt_for(calcs[1], PromptAt,
                                                  text).val>>)]
              /\ UNCHANGED <<op, ret>>
         ELSE /\ args' = [args EXCEPT ![4] = Append(@, <<PromptAt, text>>)]
              /\ op' = "prompt_for_empty"
              /\ ret' = prompt_for(calcs[1], PromptAt, text)
    /\ UNCHANGED <<calcs, updates>>

\* after the loop: self.update(**updates)
EndPromptForEmpty ==
    /\ op = "prompting"
    /\ args[3] = Len(Prompts) + 1
    /\ op' = "prompt_for_empty"
    /\ calcs' = <<PromptForEmptyEnd(update(calcs[1], TRUE, args[5])).val>>
    /\ ret' = IF Ok(PromptForEmptyEnd(update(calcs[1], TRUE, args[5])))
              THEN Return(None)
              ELSE Raise(PromptForEmptyEnd(
                             update(calcs[1], TRUE, args[5])).exc)
    /\ updates' = updates + 1
    /\ UNCHANGED args

\* the client has taken the outcome of a finished call and goes on
ResumeTerminal ==
    /\ op \in {"key_for_prompt", "prompt_for_empty"}
    /\ op' = "none"
    /\ args' = <<>>
    /\ ret' = Return(None)
    /\ UNCHANGED <<calcs, updates>>

NextTerminal ==
    \/ ConstructTerminal
    \/ CallKeyForPrompt
    \/ CallPromptForEmpty
    \/ FailKey
    \/ SkipKey
    \/ PromptKey
    \/ EndPromptForEmpty
    \/ ResumeTerminal

SpecTerminal == Init /\ [][NextTerminal]_vars

---------------------------------------------------------------------------
(* Calculators as objects that refer to their lists.  Here calcs is the    *)
(* store of objects: a list object is a cell, a calculator holds, for each *)
(* of its list attributes, the place of the cell, so that two attributes   *)
(* bound to one list object see each other's appends.  The lists that are  *)
(* the default values of the parameters of __init__ are objects made once, *)
(* when the def statements run.                                            *)

\* most update calls of a session with two calculators
MaxSharedUpdates == 2

\* most calculators of such a session
MaxShared == 2

\* a list object holding items
ListCell(items) == [t |-> "listcell", items |-> items]

\* a reference to the list object at place id
ListRef(id) == [t |-> "listref", id |-> id]

\* the list attributes in the order __init__ binds them
ListFieldOrder ==
    <<"costs", "deductions", "margins", "discounts", "formatters", "hours">>

\* the place of field in ListFieldOrder
FieldPlace(field) == CHOOSE k \in 1..Len(ListFieldOrder) :
                         ListFieldOrder[k] = field

\* the lists made by `costs: CurrencyList=[]` and the other defaults of
\* BaseCalculator.__init__ and Calculator.__init__, by place
DefaultCells == [k \in 1..Len(ListFieldOrder) |-> ListCell(<<>>)]

\* the object the parameter field is bound to in a call with keywords kw:
\* the default list when the keyword is left out
ParameterOf(kw, field) ==
    IF kw[field] = NoKwargs[field] THEN ListRef(FieldPlace(field))
    ELSE kw[field]

\* the value of an argument, a referred list read out
ValueOf(h, value) ==
    IF value.t = "listref" THEN List(h[value.id].items) ELSE value

\* the place of the list an attribute is bound to, as if `self.costs =
\* costs` had been written for `self.costs = []`
BoundCellOfParameter(parameter, fresh) ==
    IF parameter.t = "listref" THEN parameter.id ELSE fresh

\* the place of the list an attribute is bound to by `self.costs = []`:
\* a list made by this call, whatever the parameter is
BoundCell(parameter, fresh) == fresh

\* the keywords with every parameter read out
KwargsValues(h, kw) ==
    [f \in DOMAIN kw |->
        IF f \in ListFields THEN ValueOf(h, ParameterOf(kw, f)) ELSE kw[f]]

\* the calculator object Calculator(**kw) makes in the store h, its lists
\* at the places after Len(h)
CalculatorObject(h, kw) ==
    [f \in DOMAIN CalculatorInit(KwargsValues(h, kw)).val |->
        IF f \in ListFields
        THEN ListRef(BoundCell(ParameterOf(kw, f), Len(h) + FieldPlace(f)))
        ELSE CalculatorInit(KwargsValues(h, kw)).val[f]]

\* the store after Calculator(**kw): the six lists of the calculator, then
\* the calculator
CalculatorInitAt(h, kw) ==
    h \o [k \in 1..Len(ListFieldOrder) |->
             ListCell(CalculatorInit(KwargsValues(h, kw))
                          .val[ListFieldOrder[k]])]
      \o <<CalculatorObject(h, kw)>>

\* the calculator at place id with its lists read out
Load(h, id) ==
    [f \in DOMAIN h[id] |->
        IF f \in ListFields THEN h[h[id][f].id].items ELSE h[id][f]]

\* the calculator object obj with the attributes that are no lists as in
\* self
Stored(obj, self) ==
    [f \in DOMAIN self |-> IF f \in ListFields THEN obj[f] ELSE self[f]]

\* Calculator.update(append=append, key=value) on the calculator at place
\* id: attr.append changes the list object the attribute is bound to,
\* setattr binds the attribute to a new list
updateAt(h, id, append, key, value) ==
    IF key \in ListFields /\ append
    THEN [h EXCEPT ![h[id][key].id].items = Append(@, value)]
    ELSE IF key \in ListFields
    THEN Append([h EXCEPT ![id][key] = ListRef(Len(h) + 1)],
                ListCell(<<value>>))
    ELSE [h EXCEPT ![id] =
             Stored(h[id],
                    update(Load(h, id), append, <<<<key, value>>>>).val)]

\* the places of the calculators in the store h
CalculatorsAt(h) == {i \in 1..Len(h) : IsCalculator(h[i])}

\* the keywords the calculators are constructed with
SharedKwargs == {NoKwargs, TestKwargs}

\* the keywords update is called with
SharedUpdateKwargs ==
    {<<"costs", Str(<<"5">>)>>, <<"hours", Pair2010>>, <<"rate", Text30>>,
     <<"ignore_margins", Bool(TRUE)>>, <<"someattr", Str(<<"v">>)>>}

\* import jobcalc.core: the def statements run and make the default lists
ImportCore ==
    /\ op = "none"
    /\ calcs = NoCalcs
    /\ calcs' = DefaultCells
    /\ UNCHANGED <<op, args, ret, updates>>

\* Calculator(**kw) for the first calculator, Calculator() for the others
ConstructAt ==
    /\ op = "none"
    /\ calcs # NoCalcs
    /\ Cardinality(CalculatorsAt(calcs)) < MaxShared
    /\ \E kw \in (IF CalculatorsAt(calcs) = {} THEN SharedKwargs
                  ELSE {NoKwargs}) :
         calcs' = CalculatorInitAt(calcs, kw)
    /\ UNCHANGED <<op, args, ret, updates>>

\* calc.update(append=append, key=value) for one of the calculators
CallUpdateAt ==
    /\ op = "none"
    /\ updates < MaxSharedUpdates
    /\ \E id \in CalculatorsAt(calcs), append \in BOOLEAN,
          kwarg \in SharedUpdateKwargs :
        /\ op' = "update"
        /\ args' = <<id, append, kwarg[1], kwarg[2], calcs>>
        /\ ret' = Return(None)
        /\ calcs' = updateAt(calcs, id, append, kwarg[1], kwarg[2])
    /\ updates' = updates + 1

NextShared ==
    \/ ImportCore
    \/ ConstructAt
    \/ CallUpdateAt
    \/ Resume

SpecShared == Init /\ [][NextShared]_vars

---------------------------------------------------------------------------
(* subtotal, total and flatten run step by step.  A call in progress is a  *)
(* stack of frames, pushed by a call and popped by its return; the         *)
(* interpreter refuses a call when the stack is RecursionLimit deep, with  *)
(* RecursionError.  For the calculators calcs is the heap of the objects,  *)
(* a calculator in costs being a reference into it, and args holds the     *)
(* stack, how often each calculator was called as a nested one, and the    *)
(* call that was made.  For flatten a frame is a generator with the values *)
(* it has not taken yet, and args holds the stack, what was yielded so far *)
(* and the call that was made.  In both, updates counts the steps of the   *)
(* call.                                                                   *)

\* most frames of a call in progress
RecursionLimit == 5

\* the heaps subtotal and total are run on
Text1 == Str(<<"1">>)
Plain(costs) == BaseCalculatorInit(costs, None, None, None, "None")
Priced(costs, ignore_margins) ==
    BaseCalculatorInit(costs, Str(<<"5", "0">>), Text10,
                       Str(<<"1", "0", "0">>), ignore_margins)

\* three calculators, each the last cost of the next
ChainHeap ==
    <<Priced(Text123, "None"),
      Priced(List(<<Text123, CalcRef(1)>>), "True"),
      Priced(List(<<CalcRef(2), Text1>>), "False")>>

\* a calculator that is a cost of another twice, once inside a list, and
\* a third that holds both
TwiceHeap ==
    <<Priced(Text123, "None"),
      Plain(List(<<Text1, CalcRef(1), List(<<CalcRef(1)>>)>>)),
      Plain(List(<<CalcRef(2), CalcRef(1)>>))>>

\* a calculator with a cost that is no amount, inside another
InvalidCostHeap ==
    <<Plain(Str(<<"x">>)), Plain(List(<<CalcRef(1), Text1>>))>>

\* a = BaseCalculator('1'); a.costs.append(a), and a calculator holding a
SelfHeap ==
    <<[Plain(Text1) EXCEPT !.costs = Append(@, CalcRef(1))],
      Plain(List(<<Text1, CalcRef(1)>>))>>

\* two calculators that are costs of each other
LoopHeap == <<Plain(CalcRef(2)), Plain(List(<<Text1, CalcRef(1)>>))>>

EvalHeaps == {ChainHeap, TwiceHeap, InvalidCostHeap, SelfHeap, LoopHeap}

\* the calls that are run: subtotal(True), subtotal(False), total()
EvalCalls == {<<"subtotal", "True">>, <<"subtotal", "False">>,
              <<"total", "False">>}

\* the frame of calculator id running method; total() runs
\* self.subtotal(ignore_margins=False) by way of ctx().  The loop is over
\* flatten(self.costs), and looped holds what it got so far
EnterCall(h, id, method, flag) ==
    [id |-> id, method |-> method, flag |-> flag,
     costs |-> flatten(h[id].costs), looped |-> <<>>]

\* the loop of the frame is over: no cost is left, or a nested call raised
LoopOver(frame) ==
    \/ Len(frame.looped) = Len(frame.costs)
    \/ frame.looped # <<>> /\ ~Ok(frame.looped[Len(frame.looped)])

\* the cost the loop of the frame looks at next
NextCost(frame) == frame.costs[Len(frame.looped) + 1]

\* the calculator a nested call would be made on were the loop to call
\* self for cost
CalleeSelf(frame, cost) == frame.id

\* the calculator the nested call is made on: cost
CalleeOf(frame, cost) == cost.id

\* the frame of the nested call for cost: cost.subtotal(True) or
\* cost.total()
NestedCall(h, frame, cost) ==
    IF frame.flag = "True" \/ h[frame.id].ignore_margins = "True"
    THEN EnterCall(h, CalleeOf(frame, cost), "subtotal", "True")
    ELSE EnterCall(h, CalleeOf(frame, cost), "total", "False")

\* what the call of the frame returns or raises once its loop is over
ValueOfCall(h, frame) ==
    IF frame.looped # <<>> /\ ~Ok(frame.looped[Len(frame.looped)])
    THEN frame.looped[Len(frame.looped)]
    ELSE IF frame.method = "subtotal"
    THEN SubtotalOfLoop(frame.costs, frame.looped)
    ELSE CalculateContext(
             ContextOf(SubtotalOfLoop(frame.costs, frame.looped),
                       PercentageOfSum(h[frame.id].margins),
                       PercentageOfSum(h[frame.id].discounts),
                       CurrencyOfSum(h[frame.id].deductions)))

\* the stack with the loop of its top frame having got outcome
Looped(stack, outcome) ==
    [stack EXCEPT ![Len(stack)].looped = Append(@, outcome)]

\* the calculators are made and put together
ConstructHeap ==
    /\ op = "none"
    /\ calcs = NoCalcs
    /\ \E h \in EvalHeaps : calcs' = h
    /\ UNCHANGED <<op, args, ret, updates>>

\* calcs[id].subtotal(flag) or calcs[id].total() is called
CallEvaluate ==
    /\ op = "none"
    /\ calcs # NoCalcs
    /\ \E id \in DOMAIN calcs, call \in EvalCalls :
        /\ op' = "evaluating"
        /\ args' = <<<<EnterCall(calcs, id, call[1], call[2])>>,
                     [j \in DOMAIN calcs |-> 0], id, call>>
    /\ updates' = 0
    /\ UNCHANGED <<calcs, ret>>

\* the loop takes a cost that is no calculator
StepCost ==
    /\ op = "evaluating"
    /\ args[1] # <<>>
    /\ ~LoopOver(args[1][Len(args[1])])
    /\ NextCost(args[1][Len(args[1])]).t # "calc"
    /\ args' = [args EXCEPT ![1] =
                   Looped(@, Return(NextCost(args[1][Len(args[1])])))]
    /\ updates' = updates + 1
    /\ UNCHANGED <<calcs, op, ret>>

\* the loop takes a cost that is a calculator and calls it
StepNestedCall ==
    /\ op = "evaluating"
    /\ args[1] # <<>>
    /\ ~LoopOver(args[1][Len(args[1])])
    /\ NextCost(args[1][Len(args[1])]).t = "calc"
    /\ Len(args[1]) < RecursionLimit
    /\ args' = [args EXCEPT
           ![1] = Append(@, NestedCall(calcs, args[1][Len(args[1])],
                                       NextCost(args[1][Len(args[1])]))),
           ![2] = [@ EXCEPT ![NestedCall(calcs, args[1][Len(args[1])],
                                  NextCost(args[1][Len(args[1])])).id] =
                                @ + 1]]
    /\ updates' = updates + 1
    /\ UNCHANGED <<calcs, op, ret>>

\* the nested call is refused, the stack being full
StepRecursionError ==
    /\ op = "evaluating"
    /\ args[1] # <<>>
    /\ ~LoopOver(args[1][Len(args[1])])
    /\ NextCost(args[1][Len(args[1])]).t = "calc"
    /\ Len(args[1]) = RecursionLimit
    /\ args' = [args EXCEPT ![1] = Looped(@, Raise(RecursionError))]
    /\ updates' = updates + 1
    /\ UNCHANGED <<calcs, op, ret>>

\* a nested call returns or raises into the loop of its caller
StepReturn ==
    /\ op = "evaluating"
    /\ Len(args[1]) > 1
    /\ LoopOver(args[1][Len(args[1])])
    /\ args' = [args EXCEPT ![1] =
                   Looped(SubSeq(@, 1, Len(@) - 1),
                          ValueOfCall(calcs, args[1][Len(args[1])]))]
    /\ updates' = updates + 1
    /\ UNCHANGED <<calcs, op, ret>>

\* the call that was made returns or raises
EndEvaluate ==
    /\ op = "evaluating"
    /\ Len(args[1]) = 1
    /\ LoopOver(args[1][1])
    /\ op' = "evaluated"
    /\ ret' = ValueOfCall(calcs, args[1][1])
    /\ args' = [args EXCEPT ![1] = <<>>]
    /\ updates' = updates + 1
    /\ UNCHANGED calcs

\* what flatten is run on
FlattenInputs ==
    Nested1 \cup {FlattenExample, Dec(ROne), Str(<<>>),
                  List(<<Tuple(<<Text1, List(<<>>)>>), List(<<Obj>>)>>)}

\* value has __iter__ and is not of an ignored type
Iterated(value, ignoretypes) ==
    /\ value.t \notin ignoretypes
    /\ value.t \in Iterables \cup {"str"}

\* the arguments of flatten(*value): the elements of a list or tuple, the
\* characters of a text
Elements(value) ==
    IF value.t = "str" THEN [k \in DOMAIN value.s |-> Str(<<value.s[k]>>)]
    ELSE value.items

\* list(flatten(value, ignoretypes=ignoretypes)) is called
CallFlattenSteps ==
    /\ op = "none"
    /\ \E value \in FlattenInputs, ignoretypes \in IgnoreTypes :
        /\ op' = "flattening"
        /\ args' = <<<<[values |-> <<value>>]>>, <<>>, value, ignoretypes>>
    /\ updates' = 0
    /\ UNCHANGED <<calcs, ret>>

\* the generator on top takes a value it yields, which every generator
\* under it yields on
StepYield ==
    /\ op = "flattening"
    /\ args[1] # <<>>
    /\ args[1][Len(args[1])].values # <<>>
    /\ ~Iterated(Head(args[1][Len(args[1])].values), args[4])
    /\ args' = [args EXCEPT ![1][Len(args[1])].values = Tail(@),
                            ![2] = Append(@, Head(args[1][Len(args[1])].values))]
    /\ updates' = updates + 1
    /\ UNCHANGED <<calcs, op, ret>>

\* the generator on top takes a value it iterates: flatten(*value)
StepInto ==
    /\ op = "flattening"
    /\ args[1] # <<>>
    /\ args[1][Len(args[1])].values # <<>>
    /\ Iterated(Head(args[1][Len(args[1])].values), args[4])
    /\ Len(args[1]) < RecursionLimit
    /\ args' = [args EXCEPT ![1] =
                   Append([@ EXCEPT ![Len(@)].values = Tail(@)],
                          [values |->
                              Elements(Head(args[1][Len(args[1])].values))])]
    /\ updates' = updates + 1
    /\ UNCHANGED <<calcs, op, ret>>

\* the generator for the value cannot be run, the stack being full
FlattenRecursionError ==
    /\ op = "flattening"
    /\ args[1] # <<>>
    /\ args[1][Len(args[1])].values # <<>>
    /\ Iterated(Head(args[1][Len(args[1])].values), args[4])
    /\ Len(args[1]) = RecursionLimit
    /\ op' = "flattened"
    /\ ret' = Raise(RecursionError)
    /\ args' = [args EXCEPT ![1] = <<>>]
    /\ updates' = updates + 1
    /\ UNCHANGED calcs

\* the generator on top has no value left and ends
StepExhausted ==
    /\ op = "flattening"
    /\ Len(args[1]) > 1
    /\ args[1][Len(args[1])].values = <<>>
    /\ args' = [args EXCEPT ![1] = SubSeq(@, 1, Len(@) - 1)]
    /\ updates' = updates + 1
    /\ UNCHANGED <<calcs, op, ret>>

\* the outermost generator ends, and list() returns what was yielded
EndFlatten ==
    /\ op = "flattening"
    /\ Len(args[1]) = 1
    /\ args[1][1].values = <<>>
    /\ op' = "flattened"
    /\ ret' = Return(args[2])
    /\ args' = [args EXCEPT ![1] = <<>>]
    /\ updates' = updates + 1
    /\ UNCHANGED calcs

\* the caller goes on after the call has ended
ResumeEval ==
    /\ op \in {"evaluated", "flattened"}
    /\ op' = "none"
    /\ args' = <<>>
    /\ ret' = Return(None)
    /\ UNCHANGED <<calcs, updates>>

\* a step of a call in progress
StepEval ==
    \/ StepCost
    \/ StepNestedCall
    \/ StepRecursionError
    \/ StepReturn
    \/ EndEvaluate
    \/ StepYield
    \/ StepInto
    \/ FlattenRecursionError
    \/ StepExhausted
    \/ EndFlatten

NextEval ==
    \/ ConstructHeap
    \/ CallEvaluate
    \/ CallFlattenSteps
    \/ StepEval
    \/ ResumeEval

SpecEval == Init /\ [][NextEval]_vars

\* a step of a call in progress, as the count of the steps shows it
RunningStep ==
    /\ op \in {"evaluating", "flattening"}
    /\ updates' = updates + 1

\* a call in progress is run on: the interpreter does not stop
FairEval == SpecEval /\ WF_updates(RunningStep)

---------------------------------------------------------------------------
(* Properties of the value types and of calculate, under SpecTypes. *)

\* the i-th argument of the calculate call of the state
CalcArg(i) == IF i <= Len(args) THEN args[i] ELSE DefaultArg

\* value reads as a number below 0 or of at least 100
OutOfDomain(value) ==
    LET x == DecimalOf(value)
    IN  Ok(x) /\ (RLt(x.val, RZero) \/ RLe(RHundred, x.val))

\* a percent input in [1, 100) as the equivalent fraction, others as they are
AsFraction(value) ==
    LET x == DecimalOf(value)
    IN  IF Ok(x) /\ RLe(ROne, x.val) /\ RLt(x.val, RHundred)
        THEN Dec(RDiv(x.val, RHundred))
        ELSE value

\* C1: for arguments that Currency and Percentage accept, calculate is
\* defined (1 - margin is not zero) and returns
\* |((subtotal / (1 - margin)) * (1 - multiplier)) - deduction|, which is
\* never negative; with no arguments it returns 0; percent inputs give the
\* result of the equivalent fraction inputs.
C1_CalculateFormula ==
    op = "calculate" =>
        LET s == CurrencyNew(CalcArg(1))
            m == PercentageNew(CalcArg(2))
            d == PercentageNew(CalcArg(3))
            x == CurrencyNew(CalcArg(4))
        IN  (Ok(s) /\ Ok(m) /\ Ok(d) /\ Ok(x)) =>
                /\ RSub(ROne, m.val) # RZero
                /\ ret = Return(RAbs(RSub(RMul(RDiv(s.val, RSub(ROne, m.val)),
                                               RSub(ROne, d.val)), x.val)))
                /\ RLe(RZero, ret.val)
                /\ (args = <<>> => ret = Return(RZero))
                /\ ret = calculate(CalcArg(1), AsFraction(CalcArg(2)),
                                   AsFraction(CalcArg(3)), CalcArg(4))

\* calculate('1234', '50', '10', '300') has returned the Currency that
\* formats as '$1,921.20'
C1_Witness ==
    /\ op = "calculate"
    /\ args = <<Str(<<"1", "2", "3", "4">>), Str(<<"5", "0">>),
                Str(<<"1", "0">>), Str(<<"3", "0", "0">>)>>
    /\ Ok(ret)
    /\ CurrencyFormattedString(ret.val)
         = <<"$", "1", ",", "9", "2", "1", ".", "2", "0">>

\* C4 as stated: calculate fails with PercentageOutOfRange whenever the
\* margin or the multiplier is below 0 or at least 100, whatever the other
\* arguments are.
C4_OutOfRangeWhateverTheRest ==
    op = "calculate" =>
        ((OutOfDomain(CalcArg(2)) \/ OutOfDomain(CalcArg(3)))
            => ret = Raise(PercentageOutOfRange))

\* C4 as amended: calculate returns no total when the margin or the
\* multiplier is below 0 or at least 100, and the failure is
\* PercentageOutOfRange when the arguments converted before it (the
\* subtotal, and for the multiplier also the margin) convert, whatever the
\* arguments converted after it are.
C4_OutOfRangeAfterEarlierConvert ==
    op = "calculate" =>
        LET s == CurrencyNew(CalcArg(1))
            m == PercentageNew(CalcArg(2))
        IN  /\ (OutOfDomain(CalcArg(2)) \/ OutOfDomain(CalcArg(3))) => ~Ok(ret)
            /\ (Ok(s) /\ OutOfDomain(CalcArg(2)))
                   => ret = Raise(PercentageOutOfRange)
            /\ (Ok(s) /\ Ok(m) /\ OutOfDomain(CalcArg(3)))
                   => ret = Raise(PercentageOutOfRange)

\* calculate has failed with PercentageOutOfRange on an out-of-range
\* multiplier although the deduction after it does not convert
C4_Witness ==
    /\ op = "calculate"
    /\ Len(args) = 4
    /\ Ok(PercentageNew(args[2]))
    /\ OutOfDomain(args[3])
    /\ ~Ok(CurrencyNew(args[4]))
    /\ ret = Raise(PercentageOutOfRange)

\* C6: Percentage(x) fails with PercentageOutOfRange for every number x < 0
\* or x >= 100; every constructed Percentage is in [0, 1): a number in
\* [0, 1) is kept and a number in [1, 100) is divided by 100.
C6_PercentageDomain ==
    /\ (op \in {"Percentage", "PercentageReparse"} /\ Ok(ret))
            => (RLe(RZero, ret.val) /\ RLt(ret.val, ROne))
    /\ op = "Percentage" =>
        LET x == DecimalOf(args[1])
        IN  Ok(x) =>
              /\ OutOfDomain(args[1]) => ret = Raise(PercentageOutOfRange)
              /\ (RLe(RZero, x.val) /\ RLt(x.val, ROne)) => ret = Return(x.val)
              /\ (RLe(ROne, x.val) /\ RLt(x.val, RHundred))
                     => ret = Return(RDiv(x.val, RHundred))

\* Percentage(100) has failed with PercentageOutOfRange
C6_Witness ==
    /\ op = "Percentage"
    /\ DecimalOf(args[1]) = Return(RHundred)
    /\ ret = Raise(PercentageOutOfRange)

\* C7 as stated: for every number p with 0 <= p < 1, Percentage(p * 100)
\* equals Percentage(p).
C7_PercentEqualsFraction ==
    (op = "Percentage" /\ args[1].t = "dec"
        /\ RLe(RZero, args[1].v) /\ RLt(args[1].v, ROne))
      => PercentageNew(Dec(RMul(args[1].v, RHundred))) = ret

\* C7 as amended: for p = 0 and for every number p with 0.01 <= p < 1,
\* Percentage(p * 100) equals Percentage(p).
C7_PercentEqualsFractionFrom1 ==
    (op = "Percentage" /\ args[1].t = "dec"
        /\ (args[1].v = RZero \/ RLe(Norm(1, 100), args[1].v))
        /\ RLt(args[1].v, ROne))
      => PercentageNew(Dec(RMul(args[1].v, RHundred))) = ret

\* Percentage(0.5) has been constructed, and Percentage(50) is the same
C7_Witness ==
    /\ op = "Percentage"
    /\ args = <<Dec(Norm(1, 2))>>
    /\ ret = Return(Norm(1, 2))
    /\ PercentageNew(Dec(RInt(50))) = ret

\* C8: reparsing the formatted string of a Percentage p yields p truncated
\* to one decimal place of percent, and formatting and reparsing that
\* again yields it unchanged.
C8_FormattedRoundTrip ==
    op = "PercentageReparse" =>
        IF args[2] = 1
        THEN ret = Return(Norm(PercentTenths(args[1]), 1000))
        ELSE ret = Return(args[1])

\* C9: Currency of a negative number does not fail and holds its absolute
\* value: Currency(-x) = Currency(x), and every Currency is >= 0.
C9_CurrencyAbsolute ==
    /\ (op \in {"Currency", "CurrencyReparse", "calculate"} /\ Ok(ret))
            => RLe(RZero, ret.val)
    /\ op = "Currency" =>
        LET x == DecimalOf(args[1])
        IN  Ok(x) =>
              /\ ret = Return(RAbs(x.val))
              /\ CurrencyNew(Dec(RNeg(x.val))) = ret

\* Currency of a negative number has been constructed
C9_Witness ==
    /\ op = "Currency"
    /\ Ok(DecimalOf(args[1]))
    /\ RLt(DecimalOf(args[1]).val, RZero)
    /\ Ok(ret)

\* C10: Currency(c.formatted_string()) succeeds for every Currency c and
\* yields the amount of c at two decimals.
C10_FormattedCurrencyReparses ==
    op = "CurrencyReparse" => ret = Return(Norm(CurrencyCents(args[1]), 100))

---------------------------------------------------------------------------
(* Properties of BaseCalculator, under Spec. *)

\* the flattened costs of calculator i
CostsOf(i) == flatten(calcs[i].costs)

\* the positions of the nested calculators in the flattened costs of i
ChildrenOf(i) == {k \in DOMAIN CostsOf(i) : CostsOf(i)[k].t = "calc"}

\* the sum of the flattened costs of i that are not calculators
RECURSIVE PlainCostSum(_)
PlainCostSum(leaves) ==
    IF leaves = <<>> THEN RZero
    ELSE IF Head(leaves).t = "calc" THEN PlainCostSum(Tail(leaves))
    ELSE RAdd(CurrencyNew(Head(leaves)).val, PlainCostSum(Tail(leaves)))

\* the sum over the nested calculators of i of their total(), or of their
\* subtotal(ignore_margins=True) when margins are bypassed
RECURSIVE ChildSum(_, _)
ChildSum(leaves, bypass) ==
    IF leaves = <<>> THEN RZero
    ELSE IF Head(leaves).t = "calc"
         THEN RAdd(IF bypass THEN subtotal(calcs, Head(leaves).id, "True").val
                   ELSE total(calcs, Head(leaves).id).val,
                   ChildSum(Tail(leaves), bypass))
         ELSE ChildSum(Tail(leaves), bypass)

\* the fractions of the flattened entries, summed as plain decimals
FractionSum(items) == SumOutcomes(Percentages(flatten(items)))

\* the amounts of the flattened entries, summed
AmountSum(items) == SumOutcomes(Currencies(flatten(items)))

\* C2: the Context built by ctx() holds subtotal(), the sum of the
\* flattened margins and the sum of the flattened discounts (each entry
\* normalized as a Percentage) and the sum of the flattened deductions
\* (each normalized as a Currency), and total() is calculate applied to
\* these four.
C2_TotalOverSummedContext ==
    /\ (op = "ctx" /\ Ok(ret)) =>
          /\ Return(ret.val.subtotal) = subtotal(calcs, args[1], args[2])
          /\ Return(ret.val.margin) = FractionSum(calcs[args[1]].margins)
          /\ Return(ret.val.discount) = FractionSum(calcs[args[1]].discounts)
          /\ Return(ret.val.deduction) = AmountSum(calcs[args[1]].deductions)
    /\ op = "total" => ret = CalculateContext(ctx(calcs, args[1], "False"))

\* C3: the subtotal of a parent is the sum of its costs that are not
\* calculators plus its child's total(); with the parameter
\* ignore_margins=True, or with the parent's attribute ignore_margins set
\* to True and the default parameter, it is that sum plus the child's
\* subtotal(ignore_margins=True).
C3_NestedSubtotal ==
    (op = "subtotal" /\ ChildrenOf(args[1]) # {}) =>
        ret = Return(RAdd(PlainCostSum(CostsOf(args[1])),
                          ChildSum(CostsOf(args[1]),
                                   \/ args[2] = "True"
                                   \/ calcs[args[1]].ignore_margins = "True")))

\* for calc = BaseCalculator(['123', '456'], '50', '10', '100') and
\* calc2 = BaseCalculator(['123', calc], '50', '10', '100') with
\* calc2.ignore_margins = True, calc2.subtotal() has returned 702; without
\* the attribute it returns 1065.20
C3_Witness ==
    /\ op = "subtotal"
    /\ args = <<2, "False">>
    /\ calcs[2].ignore_margins = "True"
    /\ calcs[2].costs = <<List(<<Text123, CalcRef(1)>>)>>
    /\ calcs[1].costs = <<List(<<Text123, Str(<<"4", "5", "6">>)>>)>>
    /\ calcs[1].margins = <<Str(<<"5", "0">>)>>
    /\ ret = Return(RInt(702))
    /\ total(calcs, 1) = Return(Norm(4711, 5))

\* C5: when the fractions of the margins, or of the discounts, of a
\* calculator sum to at least 1, ctx() and total() fail with
\* PercentageOutOfRange.
C5_CombinedAtLeastOneFails ==
    (/\ op \in {"ctx", "total"}
     /\ \/ RLe(ROne, FractionSum(calcs[args[1]].margins).val)
        \/ RLe(ROne, FractionSum(calcs[args[1]].discounts).val))
        => ret = Raise(PercentageOutOfRange)

\* the sum of the absolute values of the leaves read as numbers
RECURSIVE AbsSum(_)
AbsSum(leaves) ==
    IF leaves = <<>> THEN RZero
    ELSE RAdd(RAbs(DecimalOf(Head(leaves)).val), AbsSum(Tail(leaves)))

\* C27: the sign is taken off every cost and every deduction by itself
\* before they are summed: the subtotal() of a calculator whose costs are
\* all scalars is the sum of the absolute values of its costs, and the
\* deduction of its Context the sum of the absolute values of its
\* deductions.
C27_SignTakenOffEachEntry ==
    /\ (op = "subtotal" /\ ChildrenOf(args[1]) = {}) =>
          ret = Return(AbsSum(CostsOf(args[1])))
    /\ (op = "ctx" /\ Ok(ret)) =>
          ret.val.deduction = AbsSum(flatten(calcs[args[1]].deductions))

\* ctx() of the calculator with costs ['-20', [5]] and deductions
\* ['20', '-30'] has given the subtotal 25 and the deduction 50
C27_Witness ==
    /\ op = "ctx"
    /\ calcs[args[1]].costs
          = <<List(<<Str(<<"-", "2", "0">>), List(<<Dec(RInt(5))>>)>>)>>
    /\ calcs[args[1]].deductions
          = <<List(<<Str(<<"2", "0">>), Str(<<"-", "3", "0">>)>>)>>
    /\ Ok(ret)
    /\ ret.val.subtotal = RInt(25)
    /\ ret.val.deduction = RInt(50)

---------------------------------------------------------------------------
(* Properties of Calculator, under SpecCalc. *)

\* the calculator of the session
TheCalc == calcs[1]

\* the calculator as it was before the assignment or update of the state
Before == args[Len(args)]

\* the sum of the costs of the calculator, none of them a calculator
CostSum(self) == PlainCostSum(flatten(self.costs))

\* the sum of the flattened hours
RECURSIVE HourSum(_)
HourSum(leaves) ==
    IF leaves = <<>> THEN RZero
    ELSE RAdd(DecimalNew(Head(leaves)).val, HourSum(Tail(leaves)))

\* costs plus rate times hours
CostsAndHours(self) ==
    RAdd(CostSum(self), RMul(rate(self), HourSum(flatten(self.hours))))

\* margin, discount and deduction of the calculator applied to amount
Applied(self, amount) ==
    calculateOf(Return(amount), PercentageOfSum(self.margins),
                PercentageOfSum(self.discounts),
                CurrencyOfSum(self.deductions))

\* C11 as stated: subtotal() is the base subtotal of the costs plus rate
\* times the sum of the flattened hours, and total() applies margin,
\* discount and deduction to that subtotal.
C11_SubtotalAddsHours ==
    /\ op = "subtotal" => ret = Return(CostsAndHours(TheCalc))
    /\ op = "total" => ret = Applied(TheCalc, CostsAndHours(TheCalc))

\* C11 as amended: subtotal() is the absolute value of the base subtotal
\* of the costs plus rate times the sum of the flattened hours, which is
\* that sum unless the hours are negative enough to outweigh the costs,
\* and total() applies margin, discount and deduction to that subtotal.
C11_SubtotalAddsHoursAbsolute ==
    /\ op = "subtotal" => ret = Return(RAbs(CostsAndHours(TheCalc)))
    /\ op = "total" => ret = Applied(TheCalc, RAbs(CostsAndHours(TheCalc)))

\* the calculator of the tests (costs 123 + 456, hours 10, rate 20, margin
\* 50, discount 10, deduction 100) has the total that renders '$1,302.20'
C11_Witness ==
    /\ op = "total"
    /\ TheCalc = CalculatorInit(TestKwargs).val
    /\ HourSum(flatten(TheCalc.hours)) = RInt(10)
    /\ Ok(ret)
    /\ CurrencyFormattedString(ret.val)
         = <<"$", "1", ",", "3", "0", "2", ".", "2", "0">>

\* value is negative or has no reading as a decimal
Rejected(value) ==
    \/ ~Ok(DecimalNew(value))
    \/ RLt(DecimalNew(value).val, RZero)

\* C12: the rate is a decimal >= 0 in every state; assigning it a negative
\* value or a value that is no decimal, directly or by update(rate=...),
\* leaves the rate as it was and raises nothing.
C12_RateGuarded ==
    /\ calcs # NoCalcs => RLe(RZero, rate(TheCalc))
    /\ (op = "rate=" /\ Rejected(args[1]))
          => (Ok(ret) /\ rate(TheCalc) = rate(Before))
    /\ (op = "update" /\ args[2] = "rate" /\ Rejected(args[3]))
          => (Ok(ret) /\ rate(TheCalc) = rate(Before))

\* the sum of the hours is > 0 and the rate is not
HoursWithoutRate(self) ==
    /\ RLt(RZero, HourSum(flatten(self.hours)))
    /\ ~RLt(RZero, rate(self))

\* C13: ctx(strict) fails with HourlyRateError exactly when strict is True
\* and the hours are > 0 while the rate is not; with strict False, and in
\* total(), that state gives the Context, and the total, of the costs
\* alone.
C13_StrictHourlyRate ==
    /\ op = "ctx" =>
          /\ ret = Raise(HourlyRateError)
                <=> (args[1] /\ HoursWithoutRate(TheCalc))
          /\ (~args[1] /\ HoursWithoutRate(TheCalc)) =>
                (Ok(ret) /\ ret.val.subtotal = CostSum(TheCalc))
    /\ (op = "total" /\ HoursWithoutRate(TheCalc)) =>
          ret = Applied(TheCalc, CostSum(TheCalc))

\* the calculator of the tests with its rate set to 0: ctx(strict=True)
\* has failed with HourlyRateError
C13_Witness ==
    /\ op = "ctx"
    /\ args = <<TRUE>>
    /\ rate(TheCalc) = RZero
    /\ TheCalc.hours = <<Text10>>
    /\ ret = Raise(HourlyRateError)

\* C14: update(append=True, field=v) on a list field leaves the collection
\* with v as one new last element, and update(append=False, field=v)
\* leaves it the list [v].
C14_UpdateListField ==
    (op = "update" /\ args[2] \in ListFields) =>
        /\ Ok(ret)
        /\ TheCalc[args[2]] = IF args[1] THEN Append(Before[args[2]], args[3])
                              ELSE <<args[3]>>

\* update(append=False, hours=('20', '10')) on the calculator of the tests
\* has left hours [('20', '10')]
C14_Witness ==
    /\ op = "update"
    /\ args[1] = FALSE
    /\ args[2] = "hours"
    /\ Before.hours = <<Text10>>
    /\ TheCalc.hours = <<Pair2010>>

\* the attributes of the calculator itself, rate among them
OwnAttributes(self) == (DOMAIN self \cup {"rate"}) \ {"_rate"}

\* C15: update(field=v) for a field that is no list: rate goes through
\* its setter; another attribute of the calculator itself is replaced on
\* the calculator and the config is left as it was; a field found only on
\* the config is replaced there; a field found on neither is newly set on
\* the config.
C15_UpdateScalarField ==
    (op = "update" /\ args[2] \notin ListFields) =>
        IF args[2] = "rate"
        THEN TheCalc = IF Ok(RateSetter(Before, args[3]))
                       THEN RateSetter(Before, args[3]).val ELSE Before
        ELSE IF args[2] \in OwnAttributes(Before)
        THEN /\ getattrOfCalculator(TheCalc, args[2]) = args[3]
             /\ TheCalc.config = Before.config
        ELSE /\ TheCalc.config = setattr(Before.config, args[2], args[3])
             /\ [TheCalc EXCEPT !.config = Before.config] = Before

\* the renders of the formatters in their order
RECURSIVE Renders(_, _)
Renders(self, formatters) ==
    IF formatters = <<>> THEN <<>>
    ELSE <<FormatterRender(self, Head(formatters)).val>>
         \o Renders(self, Tail(formatters))

\* every attached formatter has a render method
Renderable(self) ==
    \A k \in DOMAIN flatten(self.formatters) :
        flatten(self.formatters)[k].t \in {"BasicFormatter", "FormulaFormatter"}

\* C20: render(separator) returns the renders of the attached formatters,
\* in flattened attachment order, joined by the separator; with no
\* formatter attached it returns the formatted total.
C20_RenderJoinsFormatters ==
    (op = "render" /\ Renderable(TheCalc)) =>
        IF flatten(TheCalc.formatters) = <<>>
        THEN ret = Return(CurrencyFormattedString(CalculatorTotal(TheCalc).val))
        ELSE ret = Return(Join(args[1],
                               Renders(TheCalc, flatten(TheCalc.formatters))))

\* render(', ') has joined the different renders of a FormulaFormatter and
\* of the BasicFormatter nested after it
C20_Witness ==
    /\ op = "render"
    /\ args = <<(<<",", " ">>)>>
    /\ flatten(TheCalc.formatters) = <<FormulaOfSubtotal, BasicFormatter>>
    /\ Ok(ret)
    /\ ret.val = <<"S", "U", "B", "\n", "-", "-", "-", "\n",
                   "$", "5", "1", "0", ".", "0", "0", ",", " ",
                   "$", "5", "6", "6", ".", "6", "7">>


---------------------------------------------------------------------------
(* Properties of the helpers of jobcalc/utils.py, under SpecUtils. *)

\* the leaves of the values in left-to-right, depth-first order: a list or
\* tuple whose type is not ignored is descended into, every other value
\* is a leaf
RECURSIVE LeavesOf(_, _)
LeavesOf(values, ignored) ==
    IF values = <<>> THEN <<>>
    ELSE (IF Head(values).t \in Iterables /\ Head(values).t \notin ignored
          THEN LeavesOf(Head(values).items, ignored)
          ELSE <<Head(values)>>)
         \o LeavesOf(Tail(values), ignored)

\* C16: flatten yields exactly the leaves of its argument in left-to-right,
\* depth-first order, a value of an ignored type (text by default, or the
\* ignoretypes of the caller) whole and never iterated.
C16_FlattenYieldsLeaves ==
    op = "flatten" => ret = Return(LeavesOf(<<args[1]>>, args[2]))

\* the tokens trimmed, without those that are empty then
Trimmed(tokens) ==
    SelectSeq([k \in DOMAIN tokens |-> StrStrip(tokens[k])], NotEmpty)

\* C17: parse_input_string returns the tuple, also of one token, of
\* convert(t) in input order for the tokens t between the separators,
\* trimmed, every token that is empty after trimming dropped.
C17_ParseInputStringDropsEmpty ==
    op = "parse_input_string" =>
        ret = TupleOfOutcomes([k \in DOMAIN Trimmed(args[4]) |->
                                  Convert(args[3], Trimmed(args[4])[k])])

\* some token is a key with no divider and value
KeyOnly(tokens) == \E k \in DOMAIN tokens : Len(tokens[k]) = 1

\* the first token that is a key alone
FirstKeyOnly(tokens) == Min({k \in DOMAIN tokens : Len(tokens[k]) = 1})

\* the converter raises nothing but ValueError on the value of a pair
\* before the first token that is a key alone
EarlierValuesConvert(tokens, type) ==
    \A k \in 1..(FirstKeyOnly(tokens) - 1) :
        Len(tokens[k]) = 2 =>
            \/ Ok(Convert(type, tokens[k][2]))
            \/ Convert(type, tokens[k][2]).exc = ValueError

\* C18 as stated: dict_from_env_string fails with InvalidEnvString when
\* some token of the text is a key with no divider and value, and gives no
\* mapping then.
C18_KeyWithoutValueFails ==
    (op = "dict_from_env_string" /\ KeyOnly(args[5])) =>
        ret = Raise(InvalidEnvString)

\* C18 as amended: when some token of the text is a key with no divider
\* and value, dict_from_env_string raises an error and gives no mapping,
\* partial or not; the error is InvalidEnvString when the type is None or
\* callable, the separator is not the empty text and the converter raises
\* nothing but ValueError on the values before that token (a type that is
\* not callable is NotCallableError first, and another error of the
\* converter or of the split is raised as it is).
C18_KeyWithoutValueFailsWhenConvertible ==
    (op = "dict_from_env_string" /\ KeyOnly(args[5])) =>
        /\ ~Ok(ret)
        /\ (/\ ~Truthy(args[4]) \/ callable(args[4])
            /\ args[2] # Str(<<>>)
            /\ EarlierValuesConvert(args[5], args[4]))
              => ret = Raise(InvalidEnvString)

\* dict_from_env_string('key1:1.0;key2') has failed with InvalidEnvString
C18_Witness ==
    /\ op = "dict_from_env_string"
    /\ args[1] = Str(Key1 \o <<":", "1", ".", "0", ";">> \o Key2)
    /\ args[4] = None
    /\ KeyOnly(args[5])
    /\ ret = Raise(InvalidEnvString)

\* the documented form: pairs of key and value, every pair, or every pair
\* but the last, followed by the separator
Documented(tokens) ==
    /\ Len(tokens[1]) = 2
    /\ \A k \in DOMAIN tokens :
          \/ Len(tokens[k]) = 2
          \/ k = Len(tokens) /\ tokens[k] = <<>>

\* the last of the tokens with the key
LastWith(tokens, key) ==
    tokens[CHOOSE k \in DOMAIN tokens :
              /\ Len(tokens[k]) = 2 /\ tokens[k][1] = key
              /\ \A j \in DOMAIN tokens :
                    (Len(tokens[j]) = 2 /\ tokens[j][1] = key) => j <= k]

\* the mapping of exactly the pairs among the tokens, every value
\* converted
MappingOf(tokens, type) ==
    [key \in {tokens[k][1] : k \in {j \in DOMAIN tokens : Len(tokens[j]) = 2}}
        |-> Convert(type, LastWith(tokens, key)[2]).val]

\* every value of a pair is one the converter takes
ValuesConvert(tokens, type) ==
    \A k \in DOMAIN tokens :
        Len(tokens[k]) = 2 => Ok(Convert(type, tokens[k][2]))

\* C19: dict_from_env_string gives, for a text in the documented form,
\* 'key1:value1;key2:value2;' with the separator after every pair
\* included, the mapping of exactly those pairs with the converter applied
\* to every value; for '' and None the empty mapping; and a mapping given
\* to it unchanged.
C19_ParsesDocumentedForm ==
    op = "dict_from_env_string" =>
        /\ args[1] \in {None, Str(<<>>)} => ret = Return(EmptyDict)
        /\ args[1].t = "dict" => ret = Return(args[1])
        /\ (/\ args[5] # <<>>
            /\ Documented(args[5])
            /\ ~Truthy(args[4]) \/ callable(args[4])
            /\ args[2] # Str(<<>>)
            /\ args[3] # Str(<<>>)
            /\ ValuesConvert(args[5], args[4]))
              => ret = Return(Dict(MappingOf(args[5], args[4])))

\* C25: bool_from_env_string returns True exactly for the texts 'true', in
\* any letter case, and '1', and False for every other input, text or
\* not; it never raises.
C25_TrueOnlyForTrueAndOne ==
    op = "bool_from_env_string" =>
        ret = Return(Bool(/\ args[1].t = "str"
                          /\ \/ Lower(args[1].s) = <<"t", "r", "u", "e">>
                             \/ args[1].s = <<"1">>))

---------------------------------------------------------------------------
(* Properties of nested calculators, under SpecTree. *)

\* the calculators with their margins, discounts and deductions taken
\* away and their ignore_margins unset
Scrubbed(h) ==
    [k \in DOMAIN h |->
        [h[k] EXCEPT !.margins = <<>>, !.discounts = <<>>,
                     !.deductions = <<>>, !.ignore_margins = "None"]]

\* the calculators with every ignore_margins that is False unset
FalseUnset(h) ==
    [k \in DOMAIN h |->
        [h[k] EXCEPT !.ignore_margins = IF @ = "False" THEN "None" ELSE @]]

\* '123' for each calculator of the chain up to i, and 10 hours at 20 when
\* the innermost one is a Calculator
ChainCosts(h, i) ==
    RAdd(RInt(123 * i), IF IsCalculator(h[1]) THEN RInt(200) ELSE RZero)

\* C28: subtotal(ignore_margins=True) is the sum of the costs of the
\* calculator and of every calculator below it, at each depth, with the
\* hours of a Calculator: it is what the call returns once the margins,
\* discounts, deductions and flags of every calculator are taken away,
\* valid or not; and a subtotal with ignore_margins False on some
\* calculators is the one with ignore_margins unset on them.
C28_BypassReachesEveryDepth ==
    op = "subtotal" =>
        /\ args[2] = "True" =>
              /\ ret = Return(ChainCosts(calcs, args[1]))
              /\ ret = SubtotalOfObject(Scrubbed(calcs), args[1], "True")
        /\ ret = SubtotalOfObject(FalseUnset(calcs), args[1], args[2])

\* subtotal(True) has returned 569 on a chain of three calculators over a
\* Calculator, the middle one with ignore_margins False and margins that
\* do not convert, so that its total() fails
C28_Witness ==
    /\ op = "subtotal"
    /\ args[1] = 3
    /\ args[2] = "True"
    /\ IsCalculator(calcs[1])
    /\ calcs[2].ignore_margins = "False"
    /\ calcs[2].margins = <<Str(<<"x">>)>>
    /\ ~Ok(total(calcs, 2))
    /\ ret = Return(RInt(569))

---------------------------------------------------------------------------
(* Properties of total() with an entry that does not convert, under
   SpecInvalid. *)

\* C22 as stated: with an entry that is no number in costs, margins,
\* discounts or deductions, total() fails with decimal.InvalidOperation,
\* and once the entry is removed total() gives what it gave before.
C22_InvalidEntryFailsTotal ==
    /\ op = "total_with_entry" => ret = Raise(InvalidOperation)
    /\ op = "total_again" => ret = args[3]

\* C22, amended: on a calculator whose total() succeeded, total() fails
\* with decimal.InvalidOperation once an entry that is no number is added
\* to costs, margins, discounts or deductions; on any calculator it fails
\* then, with the error of the first entry that fails; and once the entry
\* is removed total() gives what it gave before, a value or a failure.
C22_InvalidEntryFailsValidTotal ==
    /\ (op = "total_with_entry" /\ Ok(args[3])) =>
          ret = Raise(InvalidOperation)
    /\ op = "total_with_entry" => ~Ok(ret)
    /\ op = "total_again" => ret = args[3]

\* BaseCalculator(['123', '456'], '50', '10', '100') gave 942.20, failed
\* with object() among its discounts and gives 942.20 again without it
C22_Witness ==
    /\ op = "total_again"
    /\ args[1] = "discounts"
    /\ args[2] = Obj
    /\ calcs[1].costs = <<List(<<Text123, Str(<<"4", "5", "6">>)>>)>>
    /\ ret = Return(Norm(4711, 5))

---------------------------------------------------------------------------
(* Properties of Calculator.render, under SpecRender. *)

\* the formatter has a render method
HasRender(formatter) ==
    formatter.t \in {"BasicFormatter", "FormulaFormatter",
                     "TerminalFormatter"}

\* the formatters render() goes through
Attached(self) == flatten(self.formatters)

\* C21: render fails with InvalidFormatter when one of the attached
\* formatters has no render method, and only then.
C21_InvalidFormatterOnlyWithoutRender ==
    op = "render" =>
        (ret = Raise(InvalidFormatter)
            <=> \E k \in DOMAIN Attached(TheCalc) :
                    ~HasRender(Attached(TheCalc)[k]))

\* the calls that only read a calculator
ReadCalls == {"subtotal", "ctx", "total", "render"}

---------------------------------------------------------------------------
(* Properties of TerminalCalculator, under SpecTerminal. *)

\* the canonical attribute name of a prompt key, as a text
CanonicalText(p) ==
    IF p \in {"rate", "hours"} THEN PromptText[p]
    ELSE PromptText[p] \o <<"s">>

\* the prompt keys that the text is, or is with a trailing 's'
PromptsSpelled(text) ==
    {p \in DOMAIN PromptText :
        text = PromptText[p] \/ text = PromptText[p] \o <<"s">>}

\* C24: key_for_prompt gives, for a prompt key and for a prompt key with
\* a trailing 's', the canonical attribute name of that key ('rate' and
\* 'hours' themselves, the plural of every other key); called on its own
\* result it gives the result again; for every other key it fails with
\* AttributeError.
C24_KeyForPromptCanonical ==
    op = "key_for_prompt" =>
        IF PromptsSpelled(PyStr(args[1])) # {}
        THEN /\ \E p \in PromptsSpelled(PyStr(args[1])) :
                    ret = Return(Str(CanonicalText(p)))
             /\ key_for_prompt(ret.val) = ret
        ELSE ret = Raise("AttributeError")

\* key_for_prompt('margins') has returned 'margins'
C24_Witness ==
    /\ op = "key_for_prompt"
    /\ args[1] = Str(PromptText.margin \o <<"s">>)
    /\ ret = Return(Str(PromptText.margin \o <<"s">>))

\* the prompt keys asked so far, in the order they were asked
Asked == [k \in DOMAIN args[4] |-> args[4][k][1]]

\* the place of a prompt key in the fixed order
PromptIndex(p) == CHOOSE k \in DOMAIN Prompts : Prompts[k] = p

\* the attribute a prompt key stands for
CanonicalAttribute ==
    [margin |-> "margins", discount |-> "discounts", hours |-> "hours",
     rate |-> "rate", deduction |-> "deductions", cost |-> "costs"]

\* what the calculator aggregates for a prompt key: the summed fractions
\* of margins and of discounts, the hours less the default hours of the
\* config, the rate, and the summed amounts of deductions and of costs
Aggregated(self, p) ==
    CASE p = "margin" -> FractionSum(self.margins).val
      [] p = "discount" -> FractionSum(self.discounts).val
      [] p = "hours" ->
            RSub(Hours(self).val, DecimalNew(self.config.default_hours).val)
      [] p = "rate" -> rate(self)
      [] p = "deduction" -> AmountSum(self.deductions).val
      [] p = "cost" -> AmountSum(self.costs).val

\* the value collected for the attribute, when there is one
Collected(attr) ==
    {args[5][k][2] : k \in {j \in DOMAIN args[5] : args[5][j][1] = attr}}

\* the calculator holds the value v for the attribute more than before
\* the call: the rate is v, another attribute has v appended
FedInto(attr, v) ==
    IF attr = "rate" THEN calcs[1]._rate = v
    ELSE calcs[1][attr] = Append(args[6][attr], v)

\* the attribute is as before the call
Untouched(attr) ==
    IF attr = "rate" THEN calcs[1]._rate = args[6]._rate
    ELSE calcs[1][attr] = args[6][attr]

\* C23: prompt_for_empty asks in the order margin, discount, hours, rate,
\* deduction, cost, each key at most once; a key it has passed was asked
\* exactly when what the calculator aggregates for it (hours less the
\* default hours) is zero; a call whose Context was built and whose
\* answers all convert returns, and when it has returned every collected
\* value is in the calculator under the canonical attribute of its key and
\* the attributes of the other keys are as before.
C23_PromptsForZeroKeysInOrder ==
    op \in {"prompting", "prompt_for_empty"} =>
        /\ \A j, k \in DOMAIN Asked :
              j < k => PromptIndex(Asked[j]) < PromptIndex(Asked[k])
        /\ \A k \in 1..(args[3] - 1) :
              (\E j \in DOMAIN Asked : Asked[j] = Prompts[k])
                  <=> Aggregated(args[6], Prompts[k]) = RZero
        /\ (/\ op = "prompt_for_empty"
            /\ args[2] # None
            /\ \A k \in DOMAIN args[4] : args[4][k][2] # <<"x">>)
              => Ok(ret)
        /\ (op = "prompt_for_empty" /\ Ok(ret)) =>
              \A p \in DOMAIN CanonicalAttribute :
                  IF \E j \in DOMAIN Asked : Asked[j] = p
                  THEN \E v \in Collected(CanonicalAttribute[p]) :
                          FedInto(CanonicalAttribute[p], v)
                  ELSE Untouched(CanonicalAttribute[p])

---------------------------------------------------------------------------
(* Properties of update on calculators that refer to their lists, under    *)
(* SpecShared.                                                             *)

\* the attribute field is the one the keyword key names
NamedBy(key, field) == field = key \/ (key = "rate" /\ field = "_rate")

\* the attributes and the rate of the calculator at place j that the call
\* update(key=...) on the calculator at place id does not name are in the
\* store h as in the store before
AttributesKept(before, h, id, j, key) ==
    /\ \A f \in DOMAIN Load(before, j) \ {"config"} :
           (j # id \/ ~NamedBy(key, f)) =>
               /\ f \in DOMAIN Load(h, j)
               /\ Load(h, j)[f] = Load(before, j)[f]
    /\ (j # id \/ key # "rate") =>
           rate(Load(h, j)) = rate(Load(before, j))

\* the same of the entries of its config
ConfigKept(before, h, id, j, key) ==
    /\ \A e \in DOMAIN Load(before, j).config :
           (j # id \/ e # key) =>
               /\ e \in DOMAIN Load(h, j).config
               /\ Load(h, j).config[e] = Load(before, j).config[e]
    /\ DOMAIN Load(h, j).config \ {key} =
           DOMAIN Load(before, j).config \ {key}

\* no list object is the value of two list attributes, and none is a
\* default value of a parameter
NothingShared(h) ==
    /\ \A i, j \in CalculatorsAt(h) : \A f, g \in ListFields :
           <<i, f>> # <<j, g>> => h[i][f].id # h[j][g].id
    /\ \A i \in CalculatorsAt(h) : \A f \in ListFields :
           h[i][f].id \notin 1..Len(DefaultCells)
    /\ h # NoCalcs => SubSeq(h, 1, Len(DefaultCells)) = DefaultCells

\* C29: update changes only what it names.  After a call
\* update(append=append, key=value) on one of the calculators, every
\* attribute, the rate and every config entry not named key is as before
\* the call, on that calculator and on the others; with append=True a
\* named list attribute holds one element more than before, the earlier
\* ones as they were, whether or not value is a sequence; and at all times
\* no two list attributes of the calculators are one list object.
C29_UpdateChangesOnlyNamedFields ==
    /\ NothingShared(calcs)
    /\ op = "update" =>
        /\ \A j \in CalculatorsAt(args[5]) :
               /\ j \in CalculatorsAt(calcs)
               /\ AttributesKept(args[5], calcs, args[1], j, args[3])
               /\ ConfigKept(args[5], calcs, args[1], j, args[3])
        /\ (args[2] /\ args[3] \in ListFields) =>
               /\ Len(Load(calcs, args[1])[args[3]]) =
                      Len(Load(args[5], args[1])[args[3]]) + 1
               /\ SubSeq(Load(calcs, args[1])[args[3]], 1,
                         Len(Load(args[5], args[1])[args[3]])) =
                      Load(args[5], args[1])[args[3]]

\* two calculators constructed with no arguments; the second
\* update(hours=('20', '10')) on one of them has left it two hours
\* entries, and the other none
C29_Witness ==
    /\ op = "update"
    /\ updates = 2
    /\ args[2]
    /\ args[3] = "hours"
    /\ args[4] = Pair2010
    /\ Cardinality(CalculatorsAt(calcs)) = 2
    /\ \A j \in CalculatorsAt(calcs) :
           /\ Load(calcs, j).costs = <<>>
           /\ Load(calcs, j).hours =
                  IF j = args[1] THEN <<Pair2010, Pair2010>> ELSE <<>>

---------------------------------------------------------------------------
(* Properties of subtotal, total and flatten run step by step, under       *)
(* FairEval.                                                               *)

\* the calculators among the flattened costs of calculator i
NestedIn(h, i) ==
    {flatten(h[i].costs)[k].id :
        k \in {n \in DOMAIN flatten(h[i].costs) :
                  flatten(h[i].costs)[n].t = "calc"}}

\* the calculators reached from those of S in at most n steps through costs
RECURSIVE ReachedWithin(_, _, _)
ReachedWithin(h, S, n) ==
    IF n = 0 THEN S
    ELSE ReachedWithin(h, S \cup UNION {NestedIn(h, j) : j \in S}, n - 1)

\* the calculators reached from calculator i through costs
ReachedFrom(h, i) == ReachedWithin(h, NestedIn(h, i), Len(h))

\* the nested costs of calculator i form a finite tree: neither i nor a
\* calculator reached from it is reached from itself
FiniteTree(h, i) ==
    \A j \in {i} \cup ReachedFrom(h, i) : j \notin ReachedFrom(h, j)

\* the occurrences of calculator j under calculator i: once for each way
\* from i to j through costs
RECURSIVE Occurrences(_, _, _)
Occurrences(h, i, j) ==
    SumSeq([k \in DOMAIN flatten(h[i].costs) |->
               IF flatten(h[i].costs)[k].t # "calc" THEN RZero
               ELSE RAdd(IF flatten(h[i].costs)[k].id = j THEN ROne
                         ELSE RZero,
                         Occurrences(h, flatten(h[i].costs)[k].id, j))])

\* every text in value stands where flatten does not iterate it: it is of
\* an ignored type, or inside a value of an ignored type
RECURSIVE TextCovered(_, _)
TextCovered(value, ignoretypes) ==
    IF value.t \in ignoretypes THEN TRUE
    ELSE IF value.t = "str" THEN FALSE
    ELSE IF value.t \in Iterables
    THEN \A k \in DOMAIN value.items : TextCovered(value.items[k], ignoretypes)
    ELSE TRUE

\* subtotal or total is in progress on a calculator whose nested costs
\* form a finite tree
EvaluatingTree == op = "evaluating" /\ FiniteTree(calcs, args[3])

\* the call has ended, and not with RecursionError; it has given what the
\* method gives, and when it returned, each nested calculator was called
\* once for each of its occurrences
EvaluatedTree ==
    /\ op = "evaluated"
    /\ FiniteTree(calcs, args[3])
    /\ ret.exc # RecursionError
    /\ ret = IF args[4][1] = "subtotal"
             THEN subtotal(calcs, args[3], args[4][2])
             ELSE total(calcs, args[3])
    /\ Ok(ret) =>
           \A j \in DOMAIN calcs :
               RInt(args[2][j]) = Occurrences(calcs, args[3], j)

\* flatten is in progress on a value whose texts are covered
FlatteningCovered == op = "flattening" /\ TextCovered(args[3], args[4])

\* list(flatten(...)) has returned the flattened value
FlattenedCovered ==
    /\ op = "flattened"
    /\ Ok(ret)
    /\ ret = flattenIgnoring(<<args[3]>>, args[4])

\* C30: a call of subtotal() or total() on a calculator whose nested costs
\* form a finite tree comes to its end, having called each nested
\* calculator once per occurrence; and flatten on a nested value whose
\* texts are covered by ignoretypes comes to its end.
C30_EvaluationTerminates ==
    /\ EvaluatingTree ~> EvaluatedTree
    /\ FlatteningCovered ~> FlattenedCovered

\* total() of the calculator whose costs are a calculator and a second one
\* that the first holds twice has returned: the second was called three
\* times, the first once
C30_Witness ==
    /\ op = "evaluated"
    /\ calcs = TwiceHeap
    /\ args[3] = 3
    /\ args[4][1] = "total"
    /\ Ok(ret)
    /\ args[2] = <<3, 1, 0>>

=============================================================================
